---- MODULE Spec2Model ----
(***************************************************************************)
(* A model of the nuxfly CLI (colinmollenhour/nuxfly):                     *)
(*   - the container startup script produced by generateStartScript,       *)
(*   - configuration resolution, validation and command dispatch,          *)
(*   - the bucket provisioner and its credential scraper,                  *)
(*   - the argument builder of the platform CLI adapter.                   *)
(* Each part has its own specification; the variables of the other parts   *)
(* stay at their idle values.                                              *)
(***************************************************************************)
EXTENDS Integers, Sequences, FiniteSets, TLC

VARIABLES
    \* ---- startup script (start.sh inside the container) ----
    pc,           \* position of the script / container
    dbFile,       \* [ -f $DATABASE_PATH ]
    flyTable,     \* the tracking table "fly" exists in the local database
    rows,         \* rows of table fly: records [id, machine_version]
    backup,       \* replica in object storage: NoBackup or a snapshot of the database
    FLY_MACHINE_VERSION,          \* "" when unset
    LITESTREAM_S3_ACCESS_KEY_ID,  \* "" when unset
    runLog,       \* what the script has executed since this container start
    starts,       \* container starts so far
    \* ---- the CLI process and its surroundings ----
    nuxtConfigTs, \* nuxt.config.ts exists in the working directory
    disk,         \* descriptor files of the working directory: name -> Absent or content
    distDir,      \* .output exists
    NUXFLY_ENV,   \* "" when unset
    FLY_APP,      \* "" when unset
    \* ---- one invocation of the CLI ----
    cliPc,        \* position of the process
    verb,         \* process.argv[2]
    argv,         \* process.argv.slice(3): what the user typed after the verb
    args,         \* parsed flags: [build, name]
    config,       \* the configuration object the command works with
    pendingRejection,       \* a rejected promise nobody awaits
    nodeThrowsOnUnhandled,  \* the runtime ends the process on an unhandled rejection
    exitCode,     \* exit code of the process, NotExited while it runs
    toolExit,     \* exit code of the last flyctl subprocess the command itself ran
    lastError,    \* the error that ended the process
    effects,      \* subprocesses spawned and files written by this invocation
    invocations,  \* invocations so far
    \* ---- one call of the argument builder ----
    aCommand, aUserArgs, aConfig, aResult,
    \* ---- one call of the credential scraper ----
    sOutput,      \* stdout of `flyctl storage create`: lines, each split at its colons
    sResult,      \* what parseStorageCreateOutput returned
    \* ---- the bucket provisioner ----
    bSite,            \* the call site that runs: "deploy", "launch", "legacy"
    bPc,              \* position inside the call site
    needs,            \* bucket kinds the Nuxt configuration asks for
    platformBuckets,  \* buckets that exist on the platform
    existingBuckets,  \* the list getExistingBuckets returned to the call site
    snapshotTaken,    \* the call site has called getExistingBuckets
    bLog,             \* calls issued and warnings emitted, in order
    bRuns,            \* runs of a call site so far
    appSecrets,       \* the secrets of the app: name -> value, "" when not set
    \* ---- one studio session ----
    stPc,             \* position of the studio handler / the CLI process
    tunnelProcess,    \* the `flyctl proxy` child: "none", "running", "killed", "exited"
    studioProcess,    \* the `drizzle-kit studio` child, likewise
    timeout,          \* the readiness timer of setupTunnel: "off", "armed", "cleared", "fired"
    elapsed,          \* seconds since the timer was armed
    tunnelStdout,     \* chunks the tunnel has written to its stdout
    stExit,           \* exit code of the CLI process, NotExited while it runs
    stError,          \* message of the error that ended the command
    \* ---- signals and platform-tool children ----
    subprocesses,     \* children spawned so far: [mode, alive, received]
    sigHandlers,      \* children a registered SIGINT/SIGTERM listener forwards to
    sPc,              \* "idle", "version" (checkFlyctlAvailable runs), "main"
    callMode,         \* "single" (executeFlyctl) or "stream" (streamFlyctl)
    cliRunning,       \* the CLI process is alive
    lastSignal,       \* the last signal the CLI received, "none" before the first
    sigCount,         \* signals received so far
    \* ---- one round trip of the descriptor ----
    gConfig,          \* the config handed to generateFlyToml
    toml,             \* the text generated, as lines
    gParsed,          \* what parseFlyToml made of it
    \* ---- one call of loadConfig ----
    resolved,         \* what loadConfig returned or threw: [done, error, config]
    \* ---- the platform ----
    appExists         \* the app that launch would create exists on the platform

scriptVars == <<pc, dbFile, flyTable, rows, backup, FLY_MACHINE_VERSION,
                LITESTREAM_S3_ACCESS_KEY_ID, runLog, starts>>

envVars == <<nuxtConfigTs, disk, distDir, NUXFLY_ENV, FLY_APP>>

cliVars == <<cliPc, verb, argv, args, config, pendingRejection, nodeThrowsOnUnhandled,
             exitCode, toolExit, lastError, effects, invocations>>

argVars == <<aCommand, aUserArgs, aConfig, aResult>>

scraperVars == <<sOutput, sResult>>

bucketVars == <<bSite, bPc, needs, platformBuckets, existingBuckets, snapshotTaken, bLog, bRuns,
                appSecrets>>

studioVars == <<stPc, tunnelProcess, studioProcess, timeout, elapsed, tunnelStdout,
                stExit, stError>>

signalVars == <<subprocesses, sigHandlers, sPc, callMode, cliRunning, lastSignal, sigCount>>

tomlVars == <<gConfig, toml, gParsed>>

resolveVars == <<resolved>>

\* the parts above, and the parts below
coreVars == <<scriptVars, envVars, cliVars, argVars, scraperVars, bucketVars>>
platformVars == <<appExists>>

sessionVars == <<studioVars, signalVars, tomlVars, resolveVars, platformVars>>

vars == <<coreVars, sessionVars>>

----------------------------------------------------------------------------
(* Bounds *)
MaxStarts == 3
MaxUserArgs == 2
MaxInvocations == 1
MaxLines == 6
MaxRuns == 2
MaxArgv == 2
MaxChunks == 2
MaxSubprocesses == 6
MaxSignals == 2
MaxEnv == 2
MaxVolumes == 1
MaxMemoryTokens == 2
MaxMachines == 2

----------------------------------------------------------------------------
(* Startup script *)

Versions == {"", "v1", "v2"}
KeyIds == {"", "tid_key"}
NoBackup == [present |-> FALSE, flyTable |-> FALSE, rows |-> {}]

\* CURRENT_VERSION=${FLY_MACHINE_VERSION:-"unknown"}
CURRENT_VERSION == IF FLY_MACHINE_VERSION = "" THEN "unknown" ELSE FLY_MACHINE_VERSION

MaxId(rs) == IF rs = {} THEN 0 ELSE CHOOSE n \in {r.id : r \in rs} : \A r \in rs : r.id <= n

\* SELECT machine_version FROM fly ORDER BY id DESC LIMIT 1  (|| echo "")
STORED_VERSION_bad(table, rs) ==
    IF ~table \/ rs = {} THEN ""
    ELSE (CHOOSE r \in rs : \A q \in rs : q.id >= r.id).machine_version

STORED_VERSION(table, rs) ==
    IF ~table \/ rs = {} THEN ""
    ELSE (CHOOSE r \in rs : r.id = MaxId(rs)).machine_version

\* INSERT INTO fly (machine_version) VALUES ('$CURRENT_VERSION')
InsertMarker(rs, v) == rs \cup {[id |-> MaxId(rs) + 1, machine_version |-> v]}

\* the branch taken after `litestream restore` returns
AfterRestore_swapped(ok) == IF ok THEN "fresh" ELSE "check"

AfterRestore(ok) == IF ok THEN "check" ELSE "fresh"

\* set -e: the step reached after a command, "exited" when it failed
errexit_off(ok, next) == next

errexit(ok, next) == IF ok THEN next ELSE "exited"

\* [ -z "$VAR" ]
zeroLength_nonEmpty(text) == text # ""

zeroLength(text) == text = ""

\* what one run of the migration tool and of the INSERT after it prints
MigrateLog(branch, migrated, after) ==
    <<branch, "migrate">>
       \o (IF migrated THEN <<>> ELSE <<"migrate_failed">>)
       \o (IF after = "final" THEN <<"insert">> ELSE <<>>)

Log(e) == runLog' = Append(runLog, e)
LogAll(es) == runLog' = runLog \o es
Has(e) == \E i \in 1..Len(runLog) : runLog[i] = e
Count(e) == Cardinality({i \in 1..Len(runLog) : runLog[i] = e})

\* the container is created; the machine version and the secrets are those of the release
ContainerStart ==
    /\ pc = "stopped"
    /\ starts < MaxStarts
    /\ starts' = starts + 1
    /\ \E v \in Versions, k \in KeyIds :
          /\ FLY_MACHINE_VERSION' = v
          /\ LITESTREAM_S3_ACCESS_KEY_ID' = k
    /\ runLog' = <<>>
    /\ pc' = "test_db"
    /\ UNCHANGED <<dbFile, flyTable, rows, backup>>
    /\ UNCHANGED <<envVars, cliVars, argVars, scraperVars, bucketVars, sessionVars>>

\* the volume is replaced (a new machine without the old volume)
VolumeLost ==
    /\ pc = "stopped"
    /\ dbFile
    /\ dbFile' = FALSE
    /\ flyTable' = FALSE
    /\ rows' = {}
    /\ UNCHANGED <<pc, backup, FLY_MACHINE_VERSION, LITESTREAM_S3_ACCESS_KEY_ID, runLog, starts>>
    /\ UNCHANGED <<envVars, cliVars, argVars, scraperVars, bucketVars, sessionVars>>

\* if [ ! -f $DATABASE_PATH ]
TestDbFile ==
    /\ pc = "test_db"
    /\ IF dbFile THEN pc' = "check" /\ Log("has_local_db")
                 ELSE pc' = "restore" /\ Log("no_local_db")
    /\ UNCHANGED <<dbFile, flyTable, rows, backup, FLY_MACHINE_VERSION,
                   LITESTREAM_S3_ACCESS_KEY_ID, starts>>
    /\ UNCHANGED <<envVars, cliVars, argVars, scraperVars, bucketVars, sessionVars>>

\* if litestream restore -config /etc/litestream.yml $DATABASE_PATH
LitestreamRestore ==
    /\ pc = "restore"
    /\ \E ok \in BOOLEAN :
          /\ ok => backup.present /\ LITESTREAM_S3_ACCESS_KEY_ID # ""
          /\ pc' = AfterRestore(ok)
          /\ IF ok
             THEN /\ dbFile' = TRUE
                  /\ flyTable' = backup.flyTable
                  /\ rows' = backup.rows
                  /\ Log("restore_ok")
             ELSE /\ UNCHANGED <<dbFile, flyTable, rows>>
                  /\ Log("restore_failed")
    /\ UNCHANGED <<backup, FLY_MACHINE_VERSION, LITESTREAM_S3_ACCESS_KEY_ID, starts>>
    /\ UNCHANGED <<envVars, cliVars, argVars, scraperVars, bucketVars, sessionVars>>

\* check_and_migrate(): the whole function; `set -e` ends the script when
\* the migration tool fails
check_and_migrate ==
    /\ pc = "check"
    /\ LET stored == STORED_VERSION(TRUE, rows) IN
       IF CURRENT_VERSION # stored
       THEN \E migrated \in BOOLEAN :
               LET after == errexit(migrated, "final") IN
               /\ rows' = IF after = "final" THEN InsertMarker(rows, CURRENT_VERSION)
                                             ELSE rows
               /\ LogAll(MigrateLog("check", migrated, after))
               /\ pc' = after
       ELSE /\ rows' = rows
            /\ LogAll(<<"check", "skip">>)
            /\ pc' = "final"
    /\ flyTable' = TRUE
    /\ UNCHANGED <<dbFile, backup, FLY_MACHINE_VERSION, LITESTREAM_S3_ACCESS_KEY_ID, starts>>
    /\ UNCHANGED <<envVars, cliVars, argVars, scraperVars, bucketVars, sessionVars>>

\* the else branch of the restore: fresh database
FreshInstall ==
    /\ pc = "fresh"
    /\ \E migrated \in BOOLEAN :
          LET after == errexit(migrated, "final") IN
          /\ IF after = "final"
             THEN /\ dbFile' = TRUE
                  /\ flyTable' = TRUE
                  /\ rows' = InsertMarker(rows, CURRENT_VERSION)
             ELSE \* the tool may have created the file before it failed
                  /\ dbFile' \in BOOLEAN
                  /\ UNCHANGED <<flyTable, rows>>
          /\ LogAll(MigrateLog("fresh", migrated, after))
          /\ pc' = after
    /\ UNCHANGED <<backup, FLY_MACHINE_VERSION, LITESTREAM_S3_ACCESS_KEY_ID, starts>>
    /\ UNCHANGED <<envVars, cliVars, argVars, scraperVars, bucketVars, sessionVars>>

\* if [ -z "$LITESTREAM_S3_ACCESS_KEY_ID" ]; exec node ... / exec litestream replicate -exec ...
FinalStep ==
    /\ pc = "final"
    /\ IF zeroLength(LITESTREAM_S3_ACCESS_KEY_ID)
       THEN pc' = "app_direct" /\ Log("exec_node")
       ELSE pc' = "app_replicated" /\ Log("exec_litestream_replicate")
    /\ UNCHANGED <<dbFile, flyTable, rows, backup, FLY_MACHINE_VERSION,
                   LITESTREAM_S3_ACCESS_KEY_ID, starts>>
    /\ UNCHANGED <<envVars, cliVars, argVars, scraperVars, bucketVars, sessionVars>>

\* litestream replicate copies the database to the bucket
Replicate ==
    /\ pc = "app_replicated"
    /\ backup' = [present |-> TRUE, flyTable |-> flyTable, rows |-> rows]
    /\ backup' # backup
    /\ UNCHANGED <<pc, dbFile, flyTable, rows, FLY_MACHINE_VERSION,
                   LITESTREAM_S3_ACCESS_KEY_ID, runLog, starts>>
    /\ UNCHANGED <<envVars, cliVars, argVars, scraperVars, bucketVars, sessionVars>>

ContainerStop ==
    /\ pc \in {"app_direct", "app_replicated", "exited"}
    /\ pc' = "stopped"
    /\ UNCHANGED <<dbFile, flyTable, rows, backup, FLY_MACHINE_VERSION,
                   LITESTREAM_S3_ACCESS_KEY_ID, runLog, starts>>
    /\ UNCHANGED <<envVars, cliVars, argVars, scraperVars, bucketVars, sessionVars>>

ScriptIdle ==
    /\ pc = "stopped"
    /\ dbFile = FALSE
    /\ flyTable = FALSE
    /\ rows = {}
    /\ backup = NoBackup
    /\ FLY_MACHINE_VERSION = ""
    /\ LITESTREAM_S3_ACCESS_KEY_ID = ""
    /\ runLog = <<>>
    /\ starts = 0

ScriptNext ==
    \/ ContainerStart
    \/ VolumeLost
    \/ TestDbFile
    \/ LitestreamRestore
    \/ check_and_migrate
    \/ FreshInstall
    \/ FinalStep
    \/ Replicate
    \/ ContainerStop


----------------------------------------------------------------------------
(* Configuration resolution *)

\* environment names other than "prod"; "fly.<name>.toml" is what the
\* pattern /^fly\.[^.]+\.toml$/ accepts in the working directory
EnvNames == {"staging"}
EnvFileNames == {"fly." \o e \o ".toml" : e \in EnvNames}
TomlFiles == {"fly.toml"} \cup EnvFileNames
AppNames == {"", "myapp"}
\* A descriptor file by what parseFlyToml reads from it: app, region,
\* memory and the two scaling numbers.  The memory text is cut into runs of
\* digits, units and other characters; <<>> is the empty string.
DefaultMemory == <<"512", "mb">>
NoFile == [present |-> FALSE, app |-> "", region |-> "", memory |-> <<>>, min |-> 0, max |-> 0]
Descriptor(a, region, memory, min, max) ==
    [present |-> TRUE, app |-> a, region |-> region, memory |-> memory, min |-> min, max |-> max]
\* a descriptor with no region, memory or scaling line: the parser's defaults
FileWith(a) == Descriptor(a, "ord", DefaultMemory, 1, 3)

\* hasEnvironmentSpecificFiles(): readdirSync(cwd).some(file => pattern.test(file))
hasEnvironmentSpecificFiles == \E f \in EnvFileNames : disk[f].present

\* getEnvironmentSpecificFlyTomlPath(); threw = NuxflyEnvNotSetError
getEnvironmentSpecificFlyTomlPath ==
    IF hasEnvironmentSpecificFiles /\ NUXFLY_ENV = ""
    THEN [threw |-> TRUE, path |-> ""]
    ELSE IF ~hasEnvironmentSpecificFiles
    THEN [threw |-> FALSE, path |-> "fly.toml"]
    ELSE IF NUXFLY_ENV = "prod"
    THEN [threw |-> FALSE, path |-> "fly.toml"]
    ELSE [threw |-> FALSE, path |-> "fly." \o NUXFLY_ENV \o ".toml"]

\* getFlyTomlPath(config): config._runtime?.flyTomlPath, else resolved again
getFlyTomlPath(cfg) ==
    IF cfg.flyTomlPath # ""
    THEN [threw |-> FALSE, path |-> cfg.flyTomlPath]
    ELSE getEnvironmentSpecificFlyTomlPath

\* the earlier revision: config._runtime?.flyTomlPath || join(cwd, '.nuxfly', 'fly.toml')
getFlyTomlPathLegacy(cfg) ==
    IF cfg.flyTomlPath # "" THEN cfg.flyTomlPath ELSE ".nuxfly/fly.toml"

\* getRegion(config): config.region || 'ord'
getRegion_asConfigured(cfg) == cfg.region

getRegion(cfg) == IF cfg.region # "" THEN cfg.region ELSE "ord"

\* getAppName(config): config.app || process.env.FLY_APP
getAppName_configOnly(cfg) == cfg.app

getAppName(cfg) == IF cfg.app # "" THEN cfg.app ELSE FLY_APP

----------------------------------------------------------------------------
(* Argument builder of the platform CLI adapter *)

Contains(seq, x) == \E i \in 1..Len(seq) : seq[i] = x
HasPair(seq, x, y) == \E i \in 1..(Len(seq) - 1) : seq[i] = x /\ seq[i + 1] = y
Occurrences(seq, x) == Cardinality({i \in 1..Len(seq) : seq[i] = x})

LaunchFlags == <<"--dockerfile", ".nuxfly/Dockerfile", "--dockerignore-from-gitignore">>

\* buildFlyctlArgs(command, userArgs, config), packages/cli revision
buildFlyctlArgs(command, userArgs, cfg) ==
    LET a1 == IF command = "launch" THEN <<command>> \o LaunchFlags ELSE <<command>>
        inject == command # "storage" /\ command # "launch"
        p == getFlyTomlPath(cfg)
        a2 == IF inject /\ cfg.flyTomlExists /\ ~p.threw
              THEN a1 \o <<"--config", p.path>> ELSE a1
        appName == getAppName(cfg)
        a3 == IF inject /\ appName # "" THEN a2 \o <<"--app", appName>> ELSE a2
    IN [threw |-> inject /\ cfg.flyTomlExists /\ p.threw,
        args |-> a3 \o userArgs]

\* buildFlyctlArgs(command, userArgs, config), src/utils revision
buildFlyctlArgsLegacy(command, userArgs, cfg) ==
    LET a1 == <<command>>
        a2 == IF cfg.flyTomlExists
              THEN a1 \o <<"--config", getFlyTomlPathLegacy(cfg)>> ELSE a1
        appName == getAppName(cfg)
        a3 == IF appName # "" THEN a2 \o <<"--app", appName>> ELSE a2
    IN [threw |-> FALSE, args |-> a3 \o userArgs]

ArgCommands == {"storage", "status", "launch", "logs"}
ArgTokens == {"list", "--app", "other", "--config"}
UserArgsOfLen(n) == [1..n -> ArgTokens]
UserArgSeqs == UNION {UserArgsOfLen(n) : n \in 0..MaxUserArgs}
ArgConfigs == [app : AppNames, flyTomlExists : BOOLEAN, flyTomlPath : {"", "fly.toml"}]
NotBuilt == [revision |-> "none", threw |-> FALSE, args |-> <<>>]

EnvIdle ==
    /\ nuxtConfigTs = TRUE
    /\ disk = [f \in TomlFiles |-> NoFile]
    /\ distDir = FALSE
    /\ NUXFLY_ENV = ""
    /\ FLY_APP = ""

ArgIdle ==
    /\ aCommand = ""
    /\ aUserArgs = <<>>
    /\ aConfig = [app |-> "", flyTomlExists |-> FALSE, flyTomlPath |-> ""]
    /\ aResult = NotBuilt

\* a caller hands a command, its arguments and a configuration to the builder
ArgInit ==
    /\ aCommand \in ArgCommands
    /\ aUserArgs \in UserArgSeqs
    /\ aConfig \in ArgConfigs
    /\ aResult = NotBuilt
    /\ nuxtConfigTs = TRUE
    /\ distDir = FALSE
    /\ FLY_APP \in {"", "envapp"}
    /\ \E env \in BOOLEAN :
          /\ disk = [f \in TomlFiles |-> IF env THEN FileWith("myapp") ELSE NoFile]
          /\ NUXFLY_ENV \in {"", "staging"}

BuildArgs ==
    /\ aResult = NotBuilt
    /\ LET r == buildFlyctlArgs(aCommand, aUserArgs, aConfig) IN
       aResult' = [revision |-> "packages/cli", threw |-> r.threw, args |-> r.args]
    /\ UNCHANGED <<aCommand, aUserArgs, aConfig>>
    /\ UNCHANGED <<scriptVars, envVars, cliVars, scraperVars, bucketVars, sessionVars>>

BuildArgsLegacy ==
    /\ aResult = NotBuilt
    /\ LET r == buildFlyctlArgsLegacy(aCommand, aUserArgs, aConfig) IN
       aResult' = [revision |-> "src/utils", threw |-> r.threw, args |-> r.args]
    /\ UNCHANGED <<aCommand, aUserArgs, aConfig>>
    /\ UNCHANGED <<scriptVars, envVars, cliVars, scraperVars, bucketVars, sessionVars>>

ArgNext ==
    \/ BuildArgs
    \/ BuildArgsLegacy

----------------------------------------------------------------------------
(* Errors *)

NoError == [name |-> "none", message |-> "", exitCode |-> 0]
NuxflyError(msg) == [name |-> "NuxflyError", message |-> msg, exitCode |-> 1]
FlyTomlNotFoundError == [name |-> "FlyTomlNotFoundError", message |-> "No .nuxfly/fly.toml found", exitCode |-> 2]
ConfigError(msg) == [name |-> "ConfigError", message |-> "Configuration error: " \o msg, exitCode |-> 3]
NotNuxtProjectError == [name |-> "NotNuxtProjectError", message |-> "Not a Nuxt project", exitCode |-> 4]
FlyctlError(command, code) == [name |-> "FlyctlError", message |-> "flyctl " \o command \o " failed", exitCode |-> code]
\* imported by config.mjs from errors.mjs, which does not define it
NuxflyEnvNotSetError == [name |-> "NuxflyEnvNotSetError", message |-> "environment not set", exitCode |-> 2]
\* the runtime's own end of the process on an unhandled rejection
UnhandledRejection == [name |-> "UnhandledRejection", message |-> "", exitCode |-> 1]
NotExited == -1

----------------------------------------------------------------------------
(* Loading the configuration *)

FilePresent(path) == path \in DOMAIN disk /\ disk[path].present
\* "" and <<>> stand for undefined; instances is a property loadConfig
\* never sets
NoInstances == [set |-> FALSE, min |-> 0, max |-> 0]
EmptyConfig == [app |-> "", region |-> "", memory |-> <<>>, instances |-> NoInstances,
                flyTomlExists |-> FALSE, flyTomlPath |-> ""]

\* isValidMemoryFormat(memory): /^\d+(?:mb|gb)$/i
DigitRuns == {"512", "1"}
Units == {"mb", "gb", "MB", "GB"}
isValidMemoryFormat(memory) ==
    /\ Len(memory) >= 2
    /\ \A i \in 1..(Len(memory) - 1) : memory[i] \in DigitRuns
    /\ memory[Len(memory)] \in Units

\* validateConfig(config): the ConfigError it throws, or NoError.  The
\* volumes of a config that loadConfig built are always [] and secrets is
\* never set, so those two blocks do nothing.
validateConfig(cfg) ==
    IF cfg.instances.set /\ cfg.instances.min < 0
    THEN ConfigError("instances.min must be >= 0")
    ELSE IF cfg.instances.set /\ cfg.instances.max < 1
    THEN ConfigError("instances.max must be >= 1")
    ELSE IF cfg.instances.set /\ cfg.instances.min > cfg.instances.max
    THEN ConfigError("instances.min cannot be greater than instances.max")
    ELSE IF cfg.memory # <<>> /\ ~isValidMemoryFormat(cfg.memory)
    THEN ConfigError("memory must be in format like 512mb, 1gb")
    ELSE NoError

\* loadConfig(): [error, config]
loadConfig ==
    IF ~nuxtConfigTs THEN [error |-> NotNuxtProjectError, config |-> EmptyConfig]
    ELSE LET p == getEnvironmentSpecificFlyTomlPath IN
         IF p.threw THEN [error |-> NuxflyEnvNotSetError, config |-> EmptyConfig]
         ELSE LET flyTomlExists == FilePresent(p.path)
                  flyConfig == IF flyTomlExists THEN disk[p.path] ELSE NoFile
                  cfg == [app |-> IF FLY_APP # "" THEN FLY_APP ELSE flyConfig.app,
                          region |-> flyConfig.region,
                          memory |-> flyConfig.memory,
                          instances |-> NoInstances,
                          flyTomlExists |-> flyTomlExists,
                          flyTomlPath |-> p.path]
              IN IF validateConfig(cfg) # NoError
                 THEN [error |-> validateConfig(cfg), config |-> EmptyConfig]
                 ELSE [error |-> NoError, config |-> cfg]

\* validateFlyTomlExists(config): the promise it returns is rejected
validateFlyTomlExistsRejects(cfg) ==
    LET p == getFlyTomlPath(cfg) IN p.threw \/ ~FilePresent(p.path)

\* shouldProxy(command)
nuxflyCommands == {"launch", "import", "generate", "deploy", "studio",
                   "help", "--help", "-h", "--version", "-v"}
shouldProxy(command) == command \notin nuxflyCommands

----------------------------------------------------------------------------
(* The CLI process *)

Verbs == {"launch", "import", "generate", "deploy", "studio", "update", "status"}
EnvValues == {"", "prod"} \cup EnvNames
FlyAppValues == {"", "envapp"}
ToolExitCodes == {0, 1, 42, 130}
FlyctlVersion == <<"flyctl", "version">>
Flyctl(vector) == <<"flyctl">> \o vector

Exit(code, err) == cliPc' = "exited" /\ exitCode' = code /\ lastError' = err
Goto(label) == cliPc' = label /\ UNCHANGED <<exitCode, lastError>>
\* process.exit(error.exitCode || 1) of the top-level handlers
Fail(err) == Exit(IF err.exitCode = 0 THEN 1 ELSE err.exitCode, err)
Crashes(pending) == pending /\ nodeThrowsOnUnhandled

\* what the user types after a verb that is handed to flyctl; the flags of
\* the CLI's own verbs are in args
ProxyTokens == {"console", "--json", "--app", "-a"}
ArgvOfLen(n) == [1..n -> ProxyTokens]
ArgvSeqs == UNION {ArgvOfLen(n) : n \in 0..MaxArgv}

\* arg.startsWith('--'), arg.startsWith('-'), arg.length === 2, arg.slice(n)
startsWithDashDash(arg) == arg \in {"--json", "--app"}
startsWithDash(arg) == arg \in {"--json", "--app", "-a"}
IsShortFlag(arg) == arg = "-a"
FlagKey(arg) == CASE arg = "--json" -> "json" [] arg = "--app" -> "app"
                  [] arg = "-a" -> "a" [] OTHER -> arg

\* parsedArgs[key] = value: the own keys of parsedArgs, besides '_', in the
\* order of their first assignment
setFlag(parsed, key, isBool, value) ==
    LET e == [key |-> key, isBool |-> isBool, value |-> value] IN
    IF \E i \in 1..Len(parsed) : parsed[i].key = key
    THEN [i \in 1..Len(parsed) |-> IF parsed[i].key = key THEN e ELSE parsed[i]]
    ELSE Append(parsed, e)

\* the flag loop of handleUnknownCommand over the arguments from index i on
RECURSIVE parseFlags(_, _, _)
parseFlags(a, i, parsed) ==
    IF i > Len(a) THEN parsed
    ELSE IF startsWithDashDash(a[i]) \/ IsShortFlag(a[i])
    THEN IF i + 1 <= Len(a) /\ ~startsWithDash(a[i + 1])
         THEN parseFlags(a, i + 2, setFlag(parsed, FlagKey(a[i]), FALSE, a[i + 1]))
         ELSE parseFlags(a, i + 1, setFlag(parsed, FlagKey(a[i]), TRUE, ""))
    ELSE parseFlags(a, i + 1, parsed)

\* Object.entries(args).forEach of proxy: flags back to command-line form
RECURSIVE flagArgs(_)
flagArgs(parsed) ==
    IF parsed = <<>> THEN <<>>
    ELSE (IF Head(parsed).isBool THEN <<"--" \o Head(parsed).key>>
          ELSE <<"--" \o Head(parsed).key, Head(parsed).value>>)
         \o flagArgs(Tail(parsed))

\* userArgs of proxy: args._.slice(1), where args._ is everything after the
\* verb, followed by the flags of parsedArgs
proxyUserArgs(a) ==
    (IF a = <<>> THEN <<>> ELSE Tail(a)) \o flagArgs(parseFlags(a, 1, <<>>))

\* the user runs `nuxfly <verb> ...` in the project directory
Invoke ==
    /\ cliPc \in {"idle", "exited"}
    /\ invocations < MaxInvocations
    /\ invocations' = invocations + 1
    /\ \E v \in Verbs :
          /\ verb' = v
          /\ argv' \in (IF shouldProxy(v) THEN ArgvSeqs ELSE {<<>>})
          /\ args' \in [build : IF v \in {"deploy", "generate"} THEN BOOLEAN ELSE {FALSE},
                        name : IF v = "launch" THEN {"", "myapp"} ELSE {""}]
    /\ NUXFLY_ENV' \in EnvValues
    /\ FLY_APP' \in FlyAppValues
    /\ config' = EmptyConfig
    /\ pendingRejection' = FALSE
    /\ effects' = <<>>
    /\ cliPc' = "handleUnknownCommand"
    /\ exitCode' = NotExited
    /\ toolExit' = NotExited
    /\ lastError' = NoError
    /\ UNCHANGED <<nuxtConfigTs, disk, distDir, nodeThrowsOnUnhandled>>
    /\ UNCHANGED <<scriptVars, argVars, scraperVars, bucketVars, sessionVars>>

\* handleUnknownCommand() up to the call of proxy
HandleUnknownCommand ==
    /\ cliPc = "handleUnknownCommand"
    /\ IF shouldProxy(verb)
       THEN /\ config' = loadConfig.config
            /\ Goto("proxy")
       ELSE /\ config' = config
            /\ Goto("ensureConfig")
    /\ UNCHANGED <<envVars, verb, argv, args, pendingRejection, nodeThrowsOnUnhandled,
                   effects, invocations>>
    /\ UNCHANGED toolExit
    /\ UNCHANGED <<scriptVars, argVars, scraperVars, bucketVars, sessionVars>>

\* ensureConfig() at the head of every subcommand's run()
ensureConfig ==
    /\ cliPc = "ensureConfig"
    /\ LET r == loadConfig IN
       IF r.error # NoError
       THEN /\ Fail(NuxflyError("Failed to load configuration: " \o r.error.message))
            /\ config' = config
       ELSE /\ Goto(verb)
            /\ config' = r.config
    /\ UNCHANGED <<envVars, verb, argv, args, pendingRejection, nodeThrowsOnUnhandled,
                   effects, invocations>>
    /\ UNCHANGED toolExit
    /\ UNCHANGED <<scriptVars, argVars, scraperVars, bucketVars, sessionVars>>

\* proxy(parsedArgs, config, command) and the catch of handleUnknownCommand
proxy ==
    /\ cliPc = "proxy"
    /\ LET pending == config.flyTomlExists /\ validateFlyTomlExistsRejects(config)
           built == buildFlyctlArgs(verb, proxyUserArgs(argv), config)
       IN /\ pendingRejection' = pending
          /\ IF Crashes(pending)
             THEN /\ effects' = Append(effects, FlyctlVersion)
                  /\ toolExit' = toolExit
                  /\ Exit(UnhandledRejection.exitCode, UnhandledRejection)
             ELSE IF built.threw
             THEN /\ effects' = Append(effects, FlyctlVersion)
                  /\ toolExit' = toolExit
                  /\ Fail(NuxflyEnvNotSetError)
             ELSE /\ effects' = effects \o <<FlyctlVersion, Flyctl(built.args)>>
                  /\ \E code \in ToolExitCodes :
                        /\ toolExit' = code
                        /\ IF code = 0 THEN Exit(0, NoError)
                           ELSE Fail(FlyctlError(verb, code))
    /\ UNCHANGED <<envVars, verb, argv, args, config, nodeThrowsOnUnhandled, invocations>>
    /\ UNCHANGED <<scriptVars, argVars, scraperVars, bucketVars, sessionVars>>

\* validateAppAccess(appName, config): what it spawns and the error it throws
validateAppAccess(appName, cfg) ==
    LET whoami == Flyctl(buildFlyctlArgs("auth", <<"whoami">>, EmptyConfig).args)
        st == buildFlyctlArgs("status", <<"--app", appName>>, cfg)
        auth == <<FlyctlVersion, whoami>>
        access == IF st.threw THEN auth \o <<FlyctlVersion>>
                  ELSE auth \o <<FlyctlVersion, Flyctl(st.args)>>
    IN {[effects |-> auth, error |-> NuxflyError("Not authenticated with Fly.io")],
        [effects |-> auth, error |-> FlyctlError("auth", 130)],
        [effects |-> access, error |-> NuxflyError("No access to app")]}
       \cup (IF st.threw THEN {} ELSE {[effects |-> access, error |-> NoError]})

ProcessExit1 == [name |-> "process.exit", message |-> "No .output directory found", exitCode |-> 1]
NpmRunBuild == <<"npm", "run", "build">>

\* validateDeploymentConfig(config), the first statement of deploy and of studio
validateDeploymentConfig ==
    /\ cliPc \in {"deploy", "studio"}
    /\ LET pending == validateFlyTomlExistsRejects(config)
           appName == getAppName(config)
       IN /\ pendingRejection' = pending
          /\ IF appName = ""
             THEN effects' = effects /\ Goto(verb \o "_validated")
             ELSE IF Crashes(pending)
             THEN /\ effects' = Append(effects, FlyctlVersion)
                  /\ Exit(UnhandledRejection.exitCode, UnhandledRejection)
             ELSE \E o \in validateAppAccess(appName, config) :
                     /\ effects' = effects \o o.effects
                     /\ IF o.error = NoError THEN Goto(verb \o "_validated")
                        ELSE Fail(o.error)
    /\ UNCHANGED <<envVars, verb, argv, args, config, nodeThrowsOnUnhandled, invocations>>
    /\ UNCHANGED toolExit
    /\ UNCHANGED <<scriptVars, argVars, scraperVars, bucketVars, sessionVars>>

\* deploy: the .output check, copyDrizzleMigrations and buildApplication
deployBuild ==
    /\ cliPc = "deploy_validated"
    /\ IF ~distDir /\ ~args.build
       THEN /\ Exit(1, ProcessExit1)
            /\ UNCHANGED <<effects, distDir>>
       ELSE IF ~args.build
       THEN /\ Goto("deploy_buckets")
            /\ UNCHANGED <<effects, distDir>>
       ELSE /\ effects' = Append(effects, NpmRunBuild)
            /\ IF Crashes(pendingRejection)
               THEN /\ Exit(UnhandledRejection.exitCode, UnhandledRejection)
                    /\ UNCHANGED distDir
               ELSE \E built \in BOOLEAN :
                       IF built
                       THEN distDir' = TRUE /\ Goto("deploy_buckets")
                       ELSE /\ distDir' = distDir
                            /\ Fail(NuxflyError("Deployment failed: Build failed"))
    /\ UNCHANGED <<nuxtConfigTs, disk, NUXFLY_ENV, FLY_APP, verb, argv, args, config,
                   pendingRejection, nodeThrowsOnUnhandled, invocations>>
    /\ UNCHANGED toolExit
    /\ UNCHANGED <<scriptVars, argVars, scraperVars, bucketVars, sessionVars>>

\* deploy: ensureBucketsExist and ensurePublicBucketUrlSecret; both only warn
\* when they fail.  Their calls after the access check are those of the
\* bucket provisioner.
deployBuckets ==
    /\ cliPc = "deploy_buckets"
    /\ LET st == buildFlyctlArgs("status", <<"--app", config.app>>, config) IN
       IF Crashes(pendingRejection)
       THEN /\ effects' = Append(effects, FlyctlVersion)
            /\ Exit(UnhandledRejection.exitCode, UnhandledRejection)
       ELSE /\ effects' = effects \o <<FlyctlVersion, Flyctl(st.args),
                                       <<"ensureBucketsExist">>,
                                       <<"ensurePublicBucketUrlSecret">> >>
            /\ Goto("deploy_fly")
    /\ UNCHANGED <<envVars, verb, argv, args, config, pendingRejection,
                   nodeThrowsOnUnhandled, invocations>>
    /\ UNCHANGED toolExit
    /\ UNCHANGED <<scriptVars, argVars, scraperVars, bucketVars, sessionVars>>

\* deploy: flyDeploy and the catch around the deployment
deployFly ==
    /\ cliPc = "deploy_fly"
    /\ LET built == buildFlyctlArgs("deploy", <<"--ha=false">>, config) IN
       /\ effects' = effects \o <<FlyctlVersion, Flyctl(built.args)>>
       /\ \E code \in ToolExitCodes :
             /\ toolExit' = code
             /\ IF code = 0 \/ code = 130 THEN Exit(0, NoError)
                ELSE Fail(NuxflyError("Deployment failed: flyctl deploy failed"))
    /\ UNCHANGED <<envVars, verb, argv, args, config, pendingRejection,
                   nodeThrowsOnUnhandled, invocations>>
    /\ UNCHANGED <<scriptVars, argVars, scraperVars, bucketVars, sessionVars>>

\* studio after the validation: drizzle-kit check, tunnel, Drizzle Studio
studio ==
    /\ cliPc = "studio_validated"
    /\ LET appName == getAppName(config)
           tunnel == <<"flyctl", "proxy", "4983:localhost:5432", "--app", appName>>
       IN IF appName = ""
          THEN /\ effects' = effects
               /\ Fail(NuxflyError("App name is required for studio command"))
          ELSE IF Crashes(pendingRejection)
          THEN /\ effects' = Append(effects, <<"drizzle-kit", "--version">>)
               /\ Exit(UnhandledRejection.exitCode, UnhandledRejection)
          ELSE \E up \in BOOLEAN :
                  IF up
                  THEN /\ effects' = effects \o << <<"drizzle-kit", "--version">>, tunnel,
                                                  <<"npx", "drizzle-kit", "studio">> >>
                       /\ Exit(0, NoError)
                  ELSE /\ effects' = effects \o << <<"drizzle-kit", "--version">>, tunnel>>
                       /\ Fail(NuxflyError("Studio setup failed: Failed to setup tunnel"))
    /\ UNCHANGED <<envVars, verb, argv, args, config, pendingRejection,
                   nodeThrowsOnUnhandled, invocations>>
    /\ UNCHANGED toolExit
    /\ UNCHANGED <<scriptVars, argVars, scraperVars, bucketVars, sessionVars>>

\* validateLaunchCommand(args): checkFlyAuth
validateLaunchCommand ==
    /\ cliPc = "launch"
    /\ LET whoami == Flyctl(buildFlyctlArgs("auth", <<"whoami">>, EmptyConfig).args) IN
       /\ effects' = effects \o <<FlyctlVersion, whoami>>
       /\ \E code \in ToolExitCodes :
             /\ toolExit' = code
             /\ IF code = 0 THEN Goto("launch_validated")
                ELSE IF code = 1 THEN Fail(NuxflyError("Not authenticated with Fly.io"))
                ELSE Fail(FlyctlError("auth", code))
    /\ UNCHANGED <<envVars, verb, argv, args, config, pendingRejection,
                   nodeThrowsOnUnhandled, invocations>>
    /\ UNCHANGED <<scriptVars, argVars, scraperVars, bucketVars, sessionVars>>

\* the app name launch derives when --name is not given
LaunchAppName ==
    IF args.name # "" THEN args.name
    ELSE IF NUXFLY_ENV # "" /\ NUXFLY_ENV # "prod"
    THEN (IF loadConfig.config.app # "" THEN loadConfig.config.app ELSE "nuxfly-app")
         \o "-" \o NUXFLY_ENV
    ELSE ""

\* launch after the validation: the descriptor is generated and written,
\* then `flyctl launch` and the volume; the check of an existing descriptor
\* calls a function validation.mjs does not export, and its catch goes on
launch ==
    /\ cliPc = "launch_validated"
    /\ LET envFlyToml == getEnvironmentSpecificFlyTomlPath.path
           appName == LaunchAppName
           loaded == loadConfig.config
           newConfig == [loaded EXCEPT !.app = IF loaded.app = "" THEN appName ELSE loaded.app]
           userArgs == (IF appName # "" THEN <<"--name", appName>> ELSE <<>>)
                       \o <<"--no-deploy", "--no-object-storage">>
                       \o (IF envFlyToml # "fly.toml" THEN <<"--config", envFlyToml>> ELSE <<>>)
                       \o <<"--yes", "--ha=false">>
           flyLaunch == Flyctl(buildFlyctlArgs("launch", userArgs, newConfig).args)
           volumes == <<FlyctlVersion,
                        Flyctl(buildFlyctlArgs("volumes", <<"list">>, newConfig).args)>>
       IN /\ disk' = [disk EXCEPT ![envFlyToml] = FileWith(newConfig.app)]
          /\ config' = newConfig
          /\ \E code \in ToolExitCodes, volumeOk \in BOOLEAN :
                /\ toolExit' = code
                /\ IF code = 130
                   THEN /\ effects' = effects \o << <<"writeFile", envFlyToml>>, FlyctlVersion, flyLaunch>>
                        /\ Exit(0, NoError)
                   ELSE IF code # 0
                   THEN /\ effects' = effects \o << <<"writeFile", envFlyToml>>, FlyctlVersion, flyLaunch>>
                        /\ Fail(NuxflyError("Launch failed: flyctl launch failed"))
                   ELSE /\ effects' = effects \o << <<"writeFile", envFlyToml>>, FlyctlVersion, flyLaunch>>
                                      \o volumes
                        /\ IF volumeOk THEN Goto("launch_buckets")
                           ELSE Fail(NuxflyError("Launch failed: Failed to create SQLite volume"))
    /\ appExists' = (appExists \/ toolExit' = 0)
    /\ UNCHANGED <<nuxtConfigTs, distDir, NUXFLY_ENV, FLY_APP, verb, argv, args, pendingRejection,
                   nodeThrowsOnUnhandled, invocations>>
    /\ UNCHANGED <<scriptVars, argVars, scraperVars, bucketVars>>
    /\ UNCHANGED <<studioVars, signalVars, tomlVars, resolveVars>>

\* launch: the bucket phase; its calls are those of the bucket provisioner
launchBuckets ==
    /\ cliPc = "launch_buckets"
    /\ effects' = Append(effects, <<"createBuckets">>)
    /\ \E ok \in BOOLEAN :
          IF ok THEN Exit(0, NoError)
          ELSE Fail(NuxflyError("Launch failed: Failed to create S3 buckets"))
    /\ UNCHANGED <<envVars, verb, argv, args, config, pendingRejection,
                   nodeThrowsOnUnhandled, invocations>>
    /\ UNCHANGED toolExit
    /\ UNCHANGED <<scriptVars, argVars, scraperVars, bucketVars, sessionVars>>

\* generate(args, config): the whole command
generate ==
    /\ cliPc = "generate"
    /\ LET pending == validateFlyTomlExistsRejects(config) IN
       /\ pendingRejection' = pending
       /\ IF ~distDir /\ ~args.build
          THEN /\ Exit(1, ProcessExit1)
               /\ UNCHANGED <<effects, distDir, disk>>
          ELSE IF Crashes(pending)
          THEN /\ effects' = IF args.build THEN Append(effects, NpmRunBuild) ELSE effects
               /\ Exit(UnhandledRejection.exitCode, UnhandledRejection)
               /\ UNCHANGED <<distDir, disk>>
          ELSE \E built \in BOOLEAN :
                  IF args.build /\ ~built
                  THEN /\ effects' = Append(effects, NpmRunBuild)
                       /\ Fail(NuxflyError("Build failed"))
                       /\ UNCHANGED <<distDir, disk>>
                  ELSE /\ effects' = (IF args.build THEN Append(effects, NpmRunBuild) ELSE effects)
                                     \o << <<"writeFile", "fly.toml">> >>
                       /\ distDir' = TRUE
                       /\ disk' = [disk EXCEPT !["fly.toml"] = FileWith(config.app)]
                       /\ Exit(0, NoError)
    /\ UNCHANGED <<nuxtConfigTs, NUXFLY_ENV, FLY_APP, verb, argv, args, config,
                   nodeThrowsOnUnhandled, invocations>>
    /\ UNCHANGED toolExit
    /\ UNCHANGED <<scriptVars, argVars, scraperVars, bucketVars, sessionVars>>

\* importConfig(args, config): the whole command
importConfig ==
    /\ cliPc = "import"
    /\ LET appName == getAppName(config)
           flyTomlPath == getEnvironmentSpecificFlyTomlPath.path
           save == buildFlyctlArgs("config", <<"save", "--app", appName>>, config)
       IN IF appName = ""
          THEN /\ Fail(NuxflyError("No app name specified"))
               /\ UNCHANGED <<effects, disk, toolExit>>
          ELSE \E o \in validateAppAccess(appName, config) :
                  IF o.error # NoError
                  THEN /\ effects' = effects \o o.effects
                       /\ Fail(o.error)
                       /\ UNCHANGED <<disk, toolExit>>
                  ELSE /\ effects' = effects \o o.effects \o <<FlyctlVersion, Flyctl(save.args)>>
                       /\ \E code \in ToolExitCodes :
                             /\ toolExit' = code
                             /\ IF code = 0
                                THEN /\ disk' = [disk EXCEPT ![flyTomlPath] = FileWith(appName)]
                                     /\ Exit(0, NoError)
                                ELSE /\ disk' = disk
                                     /\ Fail(NuxflyError("Failed to import app configuration"))
    /\ UNCHANGED <<nuxtConfigTs, distDir, NUXFLY_ENV, FLY_APP, verb, argv, args, config,
                   pendingRejection, nodeThrowsOnUnhandled, invocations>>
    /\ UNCHANGED <<scriptVars, argVars, scraperVars, bucketVars, sessionVars>>

CliIdle ==
    /\ cliPc = "idle"
    /\ verb = ""
    /\ argv = <<>>
    /\ args = [build |-> FALSE, name |-> ""]
    /\ toolExit = NotExited
    /\ config = EmptyConfig
    /\ pendingRejection = FALSE
    /\ nodeThrowsOnUnhandled = TRUE
    /\ exitCode = NotExited
    /\ lastError = NoError
    /\ effects = <<>>
    /\ invocations = 0

\* a working directory and a runtime; no invocation yet
CliInit ==
    /\ cliPc = "idle"
    /\ verb = ""
    /\ argv = <<>>
    /\ args = [build |-> FALSE, name |-> ""]
    /\ toolExit = NotExited
    /\ config = EmptyConfig
    /\ pendingRejection = FALSE
    /\ nodeThrowsOnUnhandled \in BOOLEAN
    /\ exitCode = NotExited
    /\ lastError = NoError
    /\ effects = <<>>
    /\ invocations = 0
    /\ nuxtConfigTs \in BOOLEAN
    /\ disk \in [TomlFiles -> {NoFile, FileWith("myapp")}]
    /\ distDir \in BOOLEAN
    /\ NUXFLY_ENV = ""
    /\ FLY_APP = ""

CliNext ==
    \/ Invoke
    \/ HandleUnknownCommand
    \/ ensureConfig
    \/ proxy
    \/ validateDeploymentConfig
    \/ deployBuild
    \/ deployBuckets
    \/ deployFly
    \/ studio
    \/ validateLaunchCommand
    \/ launch
    \/ launchBuckets
    \/ generate
    \/ importConfig

----------------------------------------------------------------------------
(* Credential scraper *)

\* A line of stdout is the sequence of its pieces between colons:
\* "AWS_REGION: auto" is <<"AWS_REGION", "auto">>, and
\* "AWS_ENDPOINT_URL_S3: https://host" is <<"AWS_ENDPOINT_URL_S3", "https", "//host">>.
CredentialKeys == <<"AWS_ACCESS_KEY_ID", "AWS_SECRET_ACCESS_KEY", "AWS_ENDPOINT_URL_S3",
                    "AWS_REGION", "BUCKET_NAME">>
CredentialFields == <<"accessKeyId", "secretAccessKey", "endpointUrl", "region", "bucketName">>
NoCredentials == [f \in {CredentialFields[i] : i \in 1..5} |-> ""]
Null == [isNull |-> TRUE, credentials |-> NoCredentials]

\* String.prototype.trim() on a piece
Trim(piece) == IF piece \in {"", " "} THEN "" ELSE piece

\* line.includes(KEY + ':'): the key is followed by a colon
Includes(line, key) == \E i \in 1..(Len(line) - 1) : line[i] = key

\* the branch of the else-if chain a line takes, 0 for none
Branch(line) ==
    IF \E k \in 1..5 : Includes(line, CredentialKeys[k])
    THEN CHOOSE k \in 1..5 : /\ Includes(line, CredentialKeys[k])
                             /\ \A j \in 1..(k - 1) : ~Includes(line, CredentialKeys[j])
    ELSE 0

\* the for loop over the lines
RECURSIVE ScanLines(_, _)
ScanLines(lines, credentials) ==
    IF lines = <<>> THEN credentials
    ELSE LET line == Head(lines)
             k == Branch(line)
         IN ScanLines(Tail(lines),
                      IF k = 0 THEN credentials
                      ELSE [credentials EXCEPT ![CredentialFields[k]] = Trim(line[2])])

\* the check before `return credentials`
Validated_fourFields(credentials) ==
    \A k \in 1..4 : credentials[CredentialFields[k]] # ""

Validated(credentials) ==
    \A k \in 1..5 : credentials[CredentialFields[k]] # ""

\* parseStorageCreateOutput(output)
parseStorageCreateOutput_partial(output) ==
    [isNull |-> FALSE, credentials |-> ScanLines(output, NoCredentials)]

parseStorageCreateOutput(output) ==
    LET credentials == ScanLines(output, NoCredentials) IN
    IF Validated(credentials) THEN [isNull |-> FALSE, credentials |-> credentials]
    ELSE Null

OutputLines == {
    <<"AWS_ACCESS_KEY_ID", "tid_key">>,
    <<"AWS_SECRET_ACCESS_KEY", "tsec_key">>,
    <<"AWS_ENDPOINT_URL_S3", "https", "//fly.storage.tigris.dev">>,
    <<"AWS_REGION", "auto">>,
    <<"BUCKET_NAME", "myapp-litestream">>,
    <<"AWS_REGION", " ">>,
    <<"See https", "//fly.io/docs/reference/tigris/">>,
    <<"Set one or more of the following secrets on your target app.">> }
\* stdouts of n lines, no line repeated verbatim
OutputsOfLen(n) == {o \in [1..n -> OutputLines] :
                      \A i, j \in 1..n : i # j => o[i] # o[j]}
Outputs == UNION {OutputsOfLen(n) : n \in 0..MaxLines}
NotParsed == [isNull |-> TRUE, credentials |-> NoCredentials, parsed |-> FALSE]

ScraperIdle ==
    /\ sOutput = <<>>
    /\ sResult = NotParsed

ScraperInit ==
    /\ sOutput \in Outputs
    /\ sResult = NotParsed

Scrape ==
    /\ sResult = NotParsed
    /\ LET r == parseStorageCreateOutput(sOutput) IN
       sResult' = [isNull |-> r.isNull, credentials |-> r.credentials, parsed |-> TRUE]
    /\ UNCHANGED sOutput
    /\ UNCHANGED <<scriptVars, envVars, cliVars, argVars, bucketVars, sessionVars>>

----------------------------------------------------------------------------
(* Bucket provisioner *)

BucketKinds == <<"litestream", "public", "private">>
BucketApp == "myapp"
BucketName(kind) == BucketApp \o "-" \o kind
AllBucketNames == {BucketName(BucketKinds[i]) : i \in 1..3}
Sites == {"deploy", "launch", "legacy"}
UrlSecretKey == "NUXT_PUBLIC_S3_PUBLIC_URL"
PublicBucketUrl == "https://" \o BucketName("public") \o ".t3.storageapi.dev"
CustomUrl == "https://cdn.example.com"
SecretNames == AllBucketNames \cup {UrlSecretKey}

\* stdouts `flyctl storage create` is given in this part
FullOutput(kind) == << <<"AWS_ACCESS_KEY_ID", "tid_key">>,
                       <<"AWS_ENDPOINT_URL_S3", "https", "//fly.storage.tigris.dev">>,
                       <<"AWS_REGION", "auto">>,
                       <<"AWS_SECRET_ACCESS_KEY", "tsec_key">>,
                       <<"BUCKET_NAME", BucketName(kind)>> >>
CreateOutputs(kind) == {FullOutput(kind),
                        SubSeq(FullOutput(kind), 1, 4),
                        <<>>}

\* the configuration asks for the bucket; the legacy createS3Buckets always
\* creates the litestream bucket
Needed(kind) == (bSite = "legacy" /\ kind = "litestream") \/ needs[kind]

\* the call site's test before the create call: deploy and launch look the
\* name up in existingBuckets, the legacy createS3Buckets does not
CreatesBucket(kind) ==
    /\ Needed(kind)
    /\ bSite = "legacy" \/ BucketName(kind) \notin existingBuckets

NextKind(kind) ==
    IF kind = "litestream" THEN "public" ELSE IF kind = "public" THEN "private" ELSE "done"

\* a throw inside the bucket phase: deploy warns and goes on with the
\* deployment, launch fails
AfterThrow == IF bSite = "deploy" THEN "done" ELSE "failed"

\* create<Kind>Bucket(orgName, config): storage create, the scraper, then
\* setFlySecrets or the warning
BucketEvent(kind, name, output, values) ==
    [kind |-> kind, name |-> name, snapshotTaken |-> snapshotTaken,
     snapshot |-> existingBuckets, output |-> output, values |-> values]

\* consola.debug / consola.warn with the message, as an event of the log
Consola(level, message) == BucketEvent(level, message, <<>>, <<>>)

\* the catch of ensureBucketsExist: the events of a call that threw are
\* followed by its warning; the other call sites have no such catch
Thrown(events) ==
    IF bSite = "deploy"
    THEN events \o <<Consola("consola.warn", "Failed to check/create buckets")>>
    ELSE events

CreateBucket(kind) ==
    /\ bPc = kind
    /\ CreatesBucket(kind)
    /\ \/ \* flyctl storage create fails
          /\ bLog' = bLog \o Thrown(<<BucketEvent("storage create failed", BucketName(kind),
                                                   <<>>, <<>>)>>)
          /\ bPc' = AfterThrow
          /\ UNCHANGED <<platformBuckets, appSecrets>>
       \/ \E output \in CreateOutputs(kind), secretsSet \in BOOLEAN :
             LET credentials == parseStorageCreateOutput(output)
                 create == BucketEvent("storage create", BucketName(kind), output, <<>>)
             IN /\ platformBuckets' = platformBuckets \cup {BucketName(kind)}
                /\ appSecrets' = IF ~credentials.isNull /\ secretsSet
                                 THEN [appSecrets EXCEPT ![BucketName(kind)] = "set"]
                                 ELSE appSecrets
                /\ IF ~credentials.isNull
                   THEN LET setCall == BucketEvent("secrets set", BucketName(kind), <<>>,
                                               [k \in 1..5 |->
                                                  credentials.credentials[CredentialFields[k]]])
                        IN IF secretsSet
                           THEN /\ bLog' = bLog \o <<create, setCall>>
                                /\ bPc' = NextKind(kind)
                           ELSE /\ bLog' = bLog \o Thrown(<<create, setCall,
                                               BucketEvent("secrets set failed", BucketName(kind),
                                                           <<>>, <<>>)>>)
                                /\ bPc' = AfterThrow
                   ELSE /\ bLog' = bLog \o <<create,
                               BucketEvent("warn", BucketName(kind), <<>>, <<>>)>>
                        /\ bPc' = NextKind(kind)
    /\ UNCHANGED <<bSite, needs, existingBuckets, snapshotTaken, bRuns>>
    /\ UNCHANGED <<scriptVars, envVars, cliVars, argVars, scraperVars, sessionVars>>

createLitestreamBucket == CreateBucket("litestream")

createPublicBucket == CreateBucket("public")

createPrivateBucket == CreateBucket("private")

\* the bucket is not asked for, or the call site found its name in the list
SkipBucket ==
    /\ bPc \in {"litestream", "public", "private"}
    /\ ~CreatesBucket(bPc)
    /\ bPc' = NextKind(bPc)
    /\ UNCHANGED <<bSite, needs, platformBuckets, existingBuckets, snapshotTaken, bLog, bRuns,
                   appSecrets>>
    /\ UNCHANGED <<scriptVars, envVars, cliVars, argVars, scraperVars, sessionVars>>

\* a command reaches its bucket phase
EnterSite ==
    /\ \/ bPc \in {"idle", "failed", "deployed"}
       \/ bPc = "done" /\ bSite # "deploy"
    /\ bRuns < MaxRuns
    /\ bRuns' = bRuns + 1
    /\ bSite' \in Sites
    /\ needs' \in [{"litestream", "public", "private"} -> BOOLEAN]
    /\ bPc' = "begin"
    /\ existingBuckets' = {}
    /\ snapshotTaken' = FALSE
    /\ bLog' = <<>>
    /\ UNCHANGED <<platformBuckets, appSecrets>>
    /\ UNCHANGED <<scriptVars, envVars, cliVars, argVars, scraperVars, sessionVars>>

\* getExistingBuckets(config): the names listed, or [] when the listing fails
getExistingBuckets(fails) == IF fails THEN {} ELSE platformBuckets

\* what getExistingBuckets logs when the listing fails
ListingLog(fails) ==
    IF fails THEN <<Consola("consola.debug", "Failed to list existing buckets")>> ELSE <<>>

\* ensureBucketsExist(config) of deploy, up to the first bucket
ensureBucketsExist ==
    /\ bPc = "begin"
    /\ bSite = "deploy"
    /\ \E hasAccess \in BOOLEAN, hasOrg \in BOOLEAN, fails \in BOOLEAN :
          IF ~hasAccess
          THEN /\ bPc' = "done"
               /\ bLog' = Append(bLog, Consola("consola.debug", "Cannot access app"))
               /\ UNCHANGED <<existingBuckets, snapshotTaken>>
          ELSE IF ~hasOrg
          THEN /\ bPc' = "done"
               /\ bLog' = Append(bLog, Consola("consola.debug",
                                               "Could not determine organization name"))
               /\ UNCHANGED <<existingBuckets, snapshotTaken>>
          ELSE IF \A i \in 1..3 : ~needs[BucketKinds[i]]
          THEN /\ bPc' = "done"
               /\ UNCHANGED <<existingBuckets, snapshotTaken, bLog>>
          ELSE /\ existingBuckets' = getExistingBuckets(fails)
               /\ snapshotTaken' = TRUE
               /\ bLog' = bLog \o ListingLog(fails)
               /\ bPc' = "litestream"
    /\ UNCHANGED <<bSite, needs, platformBuckets, bRuns, appSecrets>>
    /\ UNCHANGED <<scriptVars, envVars, cliVars, argVars, scraperVars, sessionVars>>

\* deploy after ensureBucketsExist: ensurePublicBucketUrlSecret, whose
\* helpers catch their own failures, then flyDeploy.  checkSecretExists
\* looks the key up in what getAppSecrets returned, [] when the listing
\* failed; `flyctl secrets set` replaces the value of a secret that exists.
ensurePublicBucketUrlSecret ==
    /\ bPc = "done"
    /\ bSite = "deploy"
    /\ \E listed \in BOOLEAN, success \in BOOLEAN :
          LET secretExists == listed /\ appSecrets[UrlSecretKey] # ""
              checked == IF listed THEN <<>>
                         ELSE <<Consola("consola.debug", "Failed to get app secrets")>>
              setting == IF secretExists THEN <<>>
                         ELSE IF success
                         THEN <<BucketEvent("url secret set", UrlSecretKey, <<>>,
                                            <<PublicBucketUrl>>)>>
                         ELSE <<Consola("consola.debug", "Failed to set secret")>>
          IN /\ bLog' = bLog
                        \o (IF needs["public"] THEN checked \o setting ELSE <<>>)
                        \o <<BucketEvent("flyctl deploy", BucketApp, <<>>, <<>>)>>
             /\ appSecrets' = IF needs["public"] /\ ~secretExists /\ success
                              THEN [appSecrets EXCEPT ![UrlSecretKey] = PublicBucketUrl]
                              ELSE appSecrets
    /\ bPc' = "deployed"
    /\ UNCHANGED <<bSite, needs, platformBuckets, existingBuckets, snapshotTaken, bRuns>>
    /\ UNCHANGED <<scriptVars, envVars, cliVars, argVars, scraperVars, sessionVars>>

\* the operator sets the public URL secret by hand, between two runs
OperatorSetsUrlSecret ==
    /\ \/ bPc \in {"idle", "failed", "deployed"}
       \/ bPc = "done" /\ bSite # "deploy"
    /\ appSecrets[UrlSecretKey] # CustomUrl
    /\ appSecrets' = [appSecrets EXCEPT ![UrlSecretKey] = CustomUrl]
    /\ UNCHANGED <<bSite, bPc, needs, platformBuckets, existingBuckets, snapshotTaken, bLog,
                   bRuns>>
    /\ UNCHANGED <<scriptVars, envVars, cliVars, argVars, scraperVars, sessionVars>>

\* the bucket phase of launch, up to the first bucket
launchCreateBuckets ==
    /\ bPc = "begin"
    /\ bSite = "launch"
    /\ \E fails \in BOOLEAN :
          /\ existingBuckets' = getExistingBuckets(fails)
          /\ bLog' = bLog \o ListingLog(fails)
    /\ snapshotTaken' = TRUE
    /\ \E hasOrg \in BOOLEAN : bPc' = IF hasOrg THEN "litestream" ELSE "done"
    /\ UNCHANGED <<bSite, needs, platformBuckets, bRuns, appSecrets>>
    /\ UNCHANGED <<scriptVars, envVars, cliVars, argVars, scraperVars, sessionVars>>

\* createS3Buckets(appName, config) of the legacy launch, up to the first bucket
createS3Buckets ==
    /\ bPc = "begin"
    /\ bSite = "legacy"
    /\ bPc' = "litestream"
    /\ UNCHANGED <<bSite, needs, platformBuckets, existingBuckets, snapshotTaken, bLog, bRuns,
                   appSecrets>>
    /\ UNCHANGED <<scriptVars, envVars, cliVars, argVars, scraperVars, sessionVars>>

BucketIdle ==
    /\ bSite = "none"
    /\ bPc = "idle"
    /\ needs = [k \in {"litestream", "public", "private"} |-> FALSE]
    /\ platformBuckets = {}
    /\ existingBuckets = {}
    /\ snapshotTaken = FALSE
    /\ bLog = <<>>
    /\ bRuns = 0
    /\ appSecrets = [n \in SecretNames |-> ""]

----------------------------------------------------------------------------
(* The studio session: tunnel, readiness, studio tool *)

\* setTimeout(..., 10000) of setupTunnel, in seconds
TunnelTimeoutSeconds == 10

\* chunks the tunnel may write to its stdout
StdoutChunks == {"Proxying local port 4983", "listening on localhost", "Connecting"}

\* output.includes('Proxying') || output.includes('localhost')
includesReady_anyOutput(output) == TRUE

includesReady(output) == output \in {"Proxying local port 4983", "listening on localhost"}

TimeoutMessage == "Studio setup failed: Failed to setup tunnel: Tunnel setup timeout"

\* the timer callback is due: the timers phase of the event loop runs it
\* before any other callback
TimerDue == timeout = "armed" /\ elapsed = TunnelTimeoutSeconds

\* cleanup() of setupTunnel and of launchDrizzleStudio, as listeners of
\* 'exit', SIGINT and SIGTERM: kill the child if it is still there
cleanup(child, registered) == IF registered /\ child = "running" THEN "killed" ELSE child

\* the error reaches the top-level handler: process.exit(error.exitCode || 1),
\* and the 'exit' listeners run
StudioFails(msg, tunnelNow, studioNow) ==
    /\ stPc' = "exited"
    /\ stExit' = 1
    /\ stError' = msg
    /\ tunnelProcess' = cleanup(tunnelNow, tunnelNow # "none")
    /\ studioProcess' = cleanup(studioNow, studioNow # "none")

\* studio(args, config) up to the readiness wait: validateDrizzleKit, then
\* the tunnel is spawned, its cleanup registered and the timer armed
StudioBegin ==
    /\ stPc = "idle"
    /\ \E found \in BOOLEAN :
          IF ~found
          THEN /\ StudioFails("Studio setup failed: drizzle-kit not found", "none", "none")
               /\ UNCHANGED <<timeout, elapsed>>
          ELSE /\ stPc' = "setupTunnel"
               /\ tunnelProcess' = "running"
               /\ timeout' = "armed"
               /\ elapsed' = 0
               /\ UNCHANGED <<studioProcess, stExit, stError>>
    /\ UNCHANGED tunnelStdout
    /\ UNCHANGED <<coreVars, signalVars, tomlVars, resolveVars, platformVars>>

\* a second passes while setupTunnel waits
Tick ==
    /\ stPc = "setupTunnel"
    /\ timeout = "armed"
    /\ elapsed < TunnelTimeoutSeconds
    /\ elapsed' = elapsed + 1
    /\ UNCHANGED <<stPc, tunnelProcess, studioProcess, timeout, tunnelStdout, stExit, stError>>
    /\ UNCHANGED <<coreVars, signalVars, tomlVars, resolveVars, platformVars>>

\* tunnelProcess.stdout.on('data'): readiness resolves the wait
TunnelWrites ==
    /\ tunnelProcess = "running"
    /\ ~TimerDue
    /\ Len(tunnelStdout) < MaxChunks
    /\ \E output \in StdoutChunks :
          /\ tunnelStdout' = Append(tunnelStdout, output)
          /\ IF stPc = "setupTunnel" /\ includesReady(output)
             THEN stPc' = "settle" /\ timeout' = "cleared"
             ELSE UNCHANGED <<stPc, timeout>>
    /\ UNCHANGED <<tunnelProcess, studioProcess, elapsed, stExit, stError>>
    /\ UNCHANGED <<coreVars, signalVars, tomlVars, resolveVars, platformVars>>

\* the timer callback: reject(new Error('Tunnel setup timeout'))
TimeoutFires ==
    /\ stPc = "setupTunnel"
    /\ TimerDue
    /\ timeout' = "fired"
    /\ StudioFails(TimeoutMessage, tunnelProcess, studioProcess)
    /\ UNCHANGED <<elapsed, tunnelStdout>>
    /\ UNCHANGED <<coreVars, signalVars, tomlVars, resolveVars, platformVars>>

\* the rejection of the tunnel's execa promise, which nothing awaits, once
\* setupTunnel has returned: the runtime either ends the process with code 1
\* or only warns, by its version and flags
TunnelRejectionUnhandled(crashes, tunnelNow) ==
    IF crashes
    THEN StudioFails("Unhandled rejection: Command failed: flyctl proxy", tunnelNow, studioProcess)
    ELSE /\ tunnelProcess' = tunnelNow
         /\ UNCHANGED <<stPc, studioProcess, stExit, stError>>

\* tunnelProcess.on('exit') for a tunnel that ends by itself: during the
\* wait a code other than 0 rejects it and code 0 leaves the timer running
TunnelExits ==
    /\ tunnelProcess = "running"
    /\ ~TimerDue
    /\ \E code \in {0, 1} :
          IF stPc = "setupTunnel" /\ code # 0
          THEN /\ StudioFails("Studio setup failed: Failed to setup tunnel: Tunnel process exited",
                              "exited", studioProcess)
               /\ timeout' = "cleared"
          ELSE IF stPc \in {"settle", "studioRunning", "returned"} /\ code # 0
          THEN /\ \E crashes \in BOOLEAN : TunnelRejectionUnhandled(crashes, "exited")
               /\ UNCHANGED timeout
          ELSE /\ tunnelProcess' = "exited"
               /\ UNCHANGED <<stPc, studioProcess, timeout, stExit, stError>>
    /\ UNCHANGED <<elapsed, tunnelStdout>>
    /\ UNCHANGED <<coreVars, signalVars, tomlVars, resolveVars, platformVars>>

\* tunnelProcess.on('exit') for a tunnel a signal listener has killed: the
\* code is null, which is not 0
TunnelKilledExit ==
    /\ stPc \in {"setupTunnel", "settle", "studioRunning", "returned"}
    /\ tunnelProcess = "killed"
    /\ ~TimerDue
    /\ IF stPc = "setupTunnel"
       THEN /\ timeout' = "cleared"
            /\ StudioFails("Studio setup failed: Failed to setup tunnel: Tunnel process exited",
                           "exited", studioProcess)
       ELSE /\ \E crashes \in BOOLEAN : TunnelRejectionUnhandled(crashes, "exited")
            /\ UNCHANGED timeout
    /\ UNCHANGED <<elapsed, tunnelStdout>>
    /\ UNCHANGED <<coreVars, signalVars, tomlVars, resolveVars, platformVars>>

\* after the two seconds of grace: launchDrizzleStudio spawns the studio
\* tool and registers its cleanup
LaunchStudio ==
    /\ stPc = "settle"
    /\ stPc' = "studioRunning"
    /\ studioProcess' = "running"
    /\ UNCHANGED <<tunnelProcess, timeout, elapsed, tunnelStdout, stExit, stError>>
    /\ UNCHANGED <<coreVars, signalVars, tomlVars, resolveVars, platformVars>>

\* `await studioProcess` settles: code 0 returns from studio(); any other
\* end is rethrown as NuxflyError, whose exit code is 1
StudioExits ==
    /\ stPc = "studioRunning"
    /\ studioProcess \in {"running", "killed"}
    /\ IF studioProcess = "killed"
       THEN StudioFails("Studio setup failed: Failed to launch Drizzle Studio",
                        tunnelProcess, studioProcess)
       ELSE \E code \in {0, 1, 130} :
               IF code = 0
               THEN /\ stPc' = "returned"
                    /\ studioProcess' = "exited"
                    /\ UNCHANGED <<tunnelProcess, stExit, stError>>
               ELSE StudioFails("Studio setup failed: Failed to launch Drizzle Studio",
                                tunnelProcess, "exited")
    /\ UNCHANGED <<timeout, elapsed, tunnelStdout>>
    /\ UNCHANGED <<coreVars, signalVars, tomlVars, resolveVars, platformVars>>

\* SIGINT or SIGTERM reaches the CLI: the registered cleanup listeners run,
\* and the process goes on, since the signal has listeners
StudioSignal ==
    /\ stPc \in {"setupTunnel", "settle", "studioRunning", "returned"}
    /\ ~TimerDue
    /\ tunnelProcess = "running" \/ studioProcess = "running"
    /\ tunnelProcess' = cleanup(tunnelProcess, TRUE)
    /\ studioProcess' = cleanup(studioProcess, TRUE)
    /\ UNCHANGED <<stPc, timeout, elapsed, tunnelStdout, stExit, stError>>
    /\ UNCHANGED <<coreVars, signalVars, tomlVars, resolveVars, platformVars>>

\* studio() has returned and no child is alive: the event loop is empty and
\* the process ends with code 0
EventLoopDrains ==
    /\ stPc = "returned"
    /\ tunnelProcess \notin {"running", "killed"}
    /\ studioProcess \notin {"running", "killed"}
    /\ stPc' = "exited"
    /\ stExit' = 0
    /\ UNCHANGED <<tunnelProcess, studioProcess, timeout, elapsed, tunnelStdout, stError>>
    /\ UNCHANGED <<coreVars, signalVars, tomlVars, resolveVars, platformVars>>

StudioIdle ==
    /\ stPc = "idle"
    /\ tunnelProcess = "none"
    /\ studioProcess = "none"
    /\ timeout = "off"
    /\ elapsed = 0
    /\ tunnelStdout = <<>>
    /\ stExit = NotExited
    /\ stError = ""

StudioNext ==
    \/ StudioBegin
    \/ Tick
    \/ TunnelWrites
    \/ TimeoutFires
    \/ TunnelExits
    \/ TunnelKilledExit
    \/ LaunchStudio
    \/ StudioExits
    \/ StudioSignal
    \/ EventLoopDrains

\* what the process does by itself is weakly fair; what the tunnel, the
\* studio tool and the user do is not
StudioFairness ==
    /\ WF_vars(StudioBegin)
    /\ WF_vars(Tick)
    /\ WF_vars(TimeoutFires)
    /\ WF_vars(TunnelKilledExit)
    /\ WF_vars(LaunchStudio)
    /\ WF_vars(EventLoopDrains)

----------------------------------------------------------------------------
(* Signals and the children of the platform CLI adapter *)

Signals == {"SIGINT", "SIGTERM"}
CallModes == {"single", "stream"}

Child(mode) == [mode |-> mode, alive |-> TRUE, received |-> {}]
Running == Len(subprocesses) > 0 /\ subprocesses[Len(subprocesses)].alive

\* subprocess.kill(sig) for the children in targets
kill(children, targets, sig) ==
    [i \in 1..Len(children) |->
        IF i \in targets /\ children[i].alive
        THEN [children[i] EXCEPT !.received = @ \cup {sig}]
        ELSE children[i]]

\* executeFlyctl / streamFlyctl is called: checkFlyctlAvailable spawns
\* `flyctl version` and waits for it
CallFlyctl ==
    /\ cliRunning
    /\ sPc = "idle"
    /\ Len(subprocesses) + 2 <= MaxSubprocesses
    /\ callMode' \in CallModes
    /\ subprocesses' = Append(subprocesses, Child("version"))
    /\ sPc' = "version"
    /\ UNCHANGED <<sigHandlers, cliRunning, lastSignal, sigCount>>
    /\ UNCHANGED <<coreVars, studioVars, tomlVars, resolveVars, platformVars>>

\* `flyctl version` has ended: the command itself is spawned; streamFlyctl
\* then adds a SIGINT and a SIGTERM listener for this child, executeFlyctl
\* adds none
SpawnFlyctl ==
    /\ cliRunning
    /\ sPc = "version"
    /\ LET n == Len(subprocesses) IN
       /\ subprocesses' = Append([subprocesses EXCEPT ![n].alive = FALSE], Child(callMode))
       /\ sigHandlers' = IF callMode = "stream" THEN sigHandlers \cup {n + 1} ELSE sigHandlers
    /\ sPc' = "main"
    /\ UNCHANGED <<callMode, cliRunning, lastSignal, sigCount>>
    /\ UNCHANGED <<coreVars, studioVars, tomlVars, resolveVars, platformVars>>

\* the command's child has ended; the listeners stay registered
FlyctlExits ==
    /\ cliRunning
    /\ sPc = "main"
    /\ subprocesses' = [subprocesses EXCEPT ![Len(subprocesses)].alive = FALSE]
    /\ sPc' = "idle"
    /\ UNCHANGED <<sigHandlers, callMode, cliRunning, lastSignal, sigCount>>
    /\ UNCHANGED <<coreVars, studioVars, tomlVars, resolveVars, platformVars>>

\* the CLI receives SIGINT or SIGTERM.  With listeners registered they run,
\* each for its own child, and the process goes on.  With none the process
\* ends; the last child then sees the same signal (sent to the whole
\* foreground group), a SIGTERM (the spawning library's kill on exit) or
\* nothing, which the code does not decide.
ReceiveSignal ==
    /\ cliRunning
    /\ sigCount < MaxSignals
    /\ sigCount' = sigCount + 1
    /\ \E sig \in Signals :
          /\ lastSignal' = sig
          /\ IF sigHandlers # {}
             THEN /\ subprocesses' = kill(subprocesses, sigHandlers, sig)
                  /\ cliRunning' = cliRunning
             ELSE /\ cliRunning' = FALSE
                  /\ \E seen \in {"none", sig, "SIGTERM"} :
                        subprocesses' = IF seen = "none"
                                        THEN subprocesses
                                        ELSE kill(subprocesses, {Len(subprocesses)}, seen)
    /\ UNCHANGED <<sigHandlers, sPc, callMode>>
    /\ UNCHANGED <<coreVars, studioVars, tomlVars, resolveVars, platformVars>>

SignalIdle ==
    /\ subprocesses = <<>>
    /\ sigHandlers = {}
    /\ sPc = "idle"
    /\ callMode = "single"
    /\ cliRunning = TRUE
    /\ lastSignal = "none"
    /\ sigCount = 0

SignalNext ==
    \/ CallFlyctl
    \/ SpawnFlyctl
    \/ FlyctlExits
    \/ ReceiveSignal

----------------------------------------------------------------------------
(* The descriptor: generateFlyToml and parseFlyToml *)

\* A descriptor text is its sequence of lines.  A line is blank, a section
\* header with its text, or `key = value` with the value's text and whether
\* the generator put it between double quotes.
Blank == [kind |-> "blank", key |-> "", text |-> "", quoted |-> FALSE]
Header(text) == [kind |-> "header", key |-> "", text |-> text, quoted |-> FALSE]
KeyValue(key, quoted, text) == [kind |-> "kv", key |-> key, text |-> text, quoted |-> quoted]

\* the configs handed to the generator; "" and Unset stand for a property
\* that is not there
Unset == [set |-> FALSE, min |-> 0, max |-> 0]
EnvEntries == {[key |-> "NODE_ENV", type |-> "string", text |-> "production"],
               [key |-> "PORT", type |-> "number", text |-> "3000"],
               [key |-> "DEBUG", type |-> "boolean", text |-> "true"]}
VolumeEntries == {[name |-> "sqlite_data", mount |-> "/data"],
                  [name |-> "uploads", mount |-> "/uploads"]}
DistinctSeqs(S, n) ==
    UNION {{q \in [1..k -> S] : \A i, j \in 1..k : i # j => q[i] # q[j]} : k \in 0..n}
TomlConfigs ==
    [app : {"", "myapp"},
     region : {"", "fra"},
     memory : {"", "1gb"},
     instances : {Unset} \cup [set : {TRUE}, min : 0..1, max : 1..2],
     env : DistinctSeqs(EnvEntries, MaxEnv),
     volumes : DistinctSeqs(VolumeEntries, MaxVolumes)]

\* the defaults of the generator's destructuring
Defaulted(cfg) ==
    [cfg EXCEPT !.region = IF @ = "" THEN "ord" ELSE @,
                !.memory = IF @ = "" THEN "512mb" ELSE @,
                !.instances = IF @.set THEN @ ELSE [set |-> TRUE, min |-> 1, max |-> 3]]

RECURSIVE EnvLines(_)
EnvLines(env) ==
    IF env = <<>> THEN <<>>
    ELSE <<KeyValue(Head(env).key, Head(env).type = "string", Head(env).text)>>
         \o EnvLines(Tail(env))

RECURSIVE MountLines(_)
MountLines(volumes) ==
    IF volumes = <<>> THEN <<>>
    ELSE <<Header("[[mounts]]"),
           KeyValue("source", TRUE, Head(volumes).name),
           KeyValue("destination", TRUE, Head(volumes).mount),
           Blank>>
         \o MountLines(Tail(volumes))

\* String.prototype.trim() at the end of the generator
RECURSIVE TrimEnd(_)
TrimEnd(lines) ==
    IF lines # <<>> /\ lines[Len(lines)] = Blank
    THEN TrimEnd(SubSeq(lines, 1, Len(lines) - 1))
    ELSE lines

\* generateFlyToml(config)
generateFlyToml(cfg) ==
    LET c == Defaulted(cfg) IN
    TrimEnd(
        (IF c.app # "" THEN <<KeyValue("app", TRUE, c.app)>> ELSE <<>>)
        \o <<KeyValue("primary_region", TRUE, c.region), Blank,
             Header("[build]"),
             KeyValue("dockerfile", TRUE, ".nuxfly/Dockerfile"), Blank,
             Header("[[services]]"),
             KeyValue("protocol", TRUE, "tcp"),
             KeyValue("internal_port", FALSE, "3000"),
             KeyValue("processes", FALSE, "[app]"), Blank,
             Header("[[services.ports]]"),
             KeyValue("port", FALSE, "80"),
             KeyValue("handlers", FALSE, "[http]"),
             KeyValue("force_https", FALSE, "true"), Blank,
             Header("[[services.ports]]"),
             KeyValue("port", FALSE, "443"),
             KeyValue("handlers", FALSE, "[tls, http]"), Blank,
             Header("[services.http_checks]"),
             Header("[services.http_checks.health]"),
             KeyValue("grace_period", TRUE, "5s"),
             KeyValue("interval", TRUE, "10s"),
             KeyValue("method", TRUE, "GET"),
             KeyValue("path", TRUE, "/"),
             KeyValue("timeout", TRUE, "5s"), Blank,
             Header("[[processes]]"),
             KeyValue("name", TRUE, "app"),
             KeyValue("entrypoint", FALSE, "[npm, start]"), Blank,
             Header("[vm]"),
             KeyValue("memory", TRUE, c.memory),
             KeyValue("cpu_kind", TRUE, "shared"),
             KeyValue("cpus", FALSE, "1"), Blank,
             Header("[scaling]"),
             KeyValue("min_machines_running", FALSE, ToString(c.instances.min)),
             KeyValue("max_machines_running", FALSE, ToString(c.instances.max)), Blank>>
        \o (IF c.env # <<>> THEN <<Header("[env]")>> \o EnvLines(c.env) \o <<Blank>> ELSE <<>>)
        \o MountLines(c.volumes))

\* trimmed.slice(1, -1) of a section header
sliceEnds(text) ==
    CASE text = "[build]" -> "build"
      [] text = "[[services]]" -> "[services]"
      [] text = "[[services.ports]]" -> "[services.ports]"
      [] text = "[services.http_checks]" -> "services.http_checks"
      [] text = "[services.http_checks.health]" -> "services.http_checks.health"
      [] text = "[[processes]]" -> "[processes]"
      [] text = "[vm]" -> "vm"
      [] text = "[scaling]" -> "scaling"
      [] text = "[env]" -> "env"
      [] text = "[[mounts]]" -> "[mounts]"
      [] OTHER -> text

\* parseInt(cleanValue, 10)
parseInt(text) == CHOOSE n \in 0..9 : ToString(n) = text

\* the config parseFlyToml starts from
ParserDefaults ==
    [app |-> "", region |-> "ord", memory |-> "512mb",
     instances |-> [set |-> TRUE, min |-> 1, max |-> 3],
     env |-> <<>>, volumes |-> <<>>]

NoMount == [open |-> FALSE, name |-> ""]

\* config.env[key] = cleanValue: the value is kept as a string
setEnv(env, key, text) ==
    LET e == [key |-> key, type |-> "string", text |-> text] IN
    IF \E i \in 1..Len(env) : env[i].key = key
    THEN [i \in 1..Len(env) |-> IF env[i].key = key THEN e ELSE env[i]]
    ELSE Append(env, e)

\* one `key = value` line, by the current section
parseKeyValue(st, line) ==
    LET c == st.config
        section == st.currentSection
    IN IF section \in {"", "root"}
       THEN [st EXCEPT !.config =
                IF line.key = "app" THEN [c EXCEPT !.app = line.text]
                ELSE IF line.key = "primary_region" THEN [c EXCEPT !.region = line.text]
                ELSE c]
       ELSE IF section = "vm"
       THEN [st EXCEPT !.config =
                IF line.key = "memory" THEN [c EXCEPT !.memory = line.text] ELSE c]
       ELSE IF section = "scaling"
       THEN [st EXCEPT !.config =
                IF line.key = "min_machines_running"
                THEN [c EXCEPT !.instances.min = parseInt(line.text)]
                ELSE IF line.key = "max_machines_running"
                THEN [c EXCEPT !.instances.max = parseInt(line.text)]
                ELSE c]
       ELSE IF section = "env"
       THEN [st EXCEPT !.config = [c EXCEPT !.env = setEnv(c.env, line.key, line.text)]]
       ELSE IF section = "[[mounts]]" /\ st.currentMount.open
       THEN IF line.key = "source"
            THEN [st EXCEPT !.currentMount.name = line.text]
            ELSE IF line.key = "destination"
            THEN [st EXCEPT !.config = [c EXCEPT !.volumes =
                                           Append(@, [name |-> st.currentMount.name,
                                                      mount |-> line.text])],
                            !.currentMount = NoMount]
            ELSE st
       ELSE st

\* one pass of the loop of parseFlyToml
parseLine(st, line) ==
    IF line.kind = "blank" THEN st
    ELSE IF line.kind = "header"
    THEN [st EXCEPT !.currentSection = sliceEnds(line.text),
                    !.currentMount = IF sliceEnds(line.text) = "[[mounts]]"
                                     THEN [open |-> TRUE, name |-> ""] ELSE @]
    ELSE parseKeyValue(st, line)

\* the loop of parseFlyToml from line i on.  The test on the section reads
\* the loop's state at every pass, so that TLC computes it pass by pass.
RECURSIVE parseLines(_, _, _)
parseLines(lines, i, st) ==
    IF i > Len(lines) \/ st.currentSection = "#"
    THEN st
    ELSE parseLines(lines, i + 1, parseLine(st, lines[i]))

\* parseFlyToml(content)
parseFlyToml(content) ==
    parseLines(content, 1, [config |-> ParserDefaults, currentSection |-> "",
                            currentMount |-> NoMount]).config

NotGenerated == <<>>
NotParsedYet == [done |-> FALSE, config |-> ParserDefaults]

TomlIdle ==
    /\ gConfig = [app |-> "", region |-> "", memory |-> "", instances |-> Unset,
                  env |-> <<>>, volumes |-> <<>>]
    /\ toml = NotGenerated
    /\ gParsed = NotParsedYet

TomlInit ==
    /\ gConfig \in TomlConfigs
    /\ toml = NotGenerated
    /\ gParsed = NotParsedYet

Generate ==
    /\ toml = NotGenerated
    /\ toml' = generateFlyToml(gConfig)
    /\ UNCHANGED <<gConfig, gParsed>>
    /\ UNCHANGED <<coreVars, studioVars, signalVars, resolveVars, platformVars>>

Parse ==
    /\ toml # NotGenerated
    /\ ~gParsed.done
    /\ gParsed' = [done |-> TRUE, config |-> parseFlyToml(toml)]
    /\ UNCHANGED <<gConfig, toml>>
    /\ UNCHANGED <<coreVars, studioVars, signalVars, resolveVars, platformVars>>

TomlNext ==
    \/ Generate
    \/ Parse

----------------------------------------------------------------------------
(* One call of loadConfig in a project directory *)

\* texts a descriptor may give for memory
MemoryTokens == DigitRuns \cup {"mb", "GB", "x"}
MemoryTexts == UNION {[1..n -> MemoryTokens] : n \in 0..MaxMemoryTokens}

\* descriptors a project directory may hold
Descriptors ==
    {Descriptor("myapp", region, memory, min, max) :
        region \in {"ord", "fra"}, memory \in MemoryTexts \cup {DefaultMemory},
        min \in 0..MaxMachines, max \in 0..MaxMachines}

NotLoaded == [done |-> FALSE, error |-> NoError, config |-> EmptyConfig]

ResolveIdle == resolved = NotLoaded

ResolveInit ==
    /\ resolved = NotLoaded
    /\ nuxtConfigTs \in BOOLEAN
    /\ \E d \in Descriptors, there \in SUBSET TomlFiles :
          disk = [f \in TomlFiles |-> IF f \in there THEN d ELSE NoFile]
    /\ distDir = FALSE
    /\ NUXFLY_ENV \in EnvValues
    /\ FLY_APP \in FlyAppValues

\* await loadConfig()
LoadConfig ==
    /\ ~resolved.done
    /\ resolved' = [done |-> TRUE, error |-> loadConfig.error, config |-> loadConfig.config]
    /\ UNCHANGED <<coreVars, studioVars, signalVars, tomlVars, platformVars>>

ResolveNext == LoadConfig

----------------------------------------------------------------------------
(* Specifications: one per part, the other parts idle *)

PlatformIdle == appExists = FALSE

SessionIdle == StudioIdle /\ SignalIdle /\ TomlIdle /\ ResolveIdle /\ PlatformIdle

ScriptInit == ScriptIdle /\ EnvIdle /\ CliIdle /\ ArgIdle /\ ScraperIdle /\ BucketIdle /\ SessionIdle

SpecScript == ScriptInit /\ [][ScriptNext]_vars

ArgsInit == ScriptIdle /\ CliIdle /\ ArgInit /\ ScraperIdle /\ BucketIdle /\ SessionIdle

SpecArgs == ArgsInit /\ [][ArgNext]_vars

\* the app of the project may or may not have been created already
CliSpecInit ==
    /\ ScriptIdle /\ CliInit /\ ArgIdle /\ ScraperIdle /\ BucketIdle
    /\ StudioIdle /\ SignalIdle /\ TomlIdle /\ ResolveIdle
    /\ appExists \in BOOLEAN

SpecCli == CliSpecInit /\ [][CliNext]_vars

ScraperSpecInit == ScriptIdle /\ EnvIdle /\ CliIdle /\ ArgIdle /\ ScraperInit /\ BucketIdle /\ SessionIdle

ScraperNext == Scrape

SpecScraper == ScraperSpecInit /\ [][ScraperNext]_vars

BucketInit == ScriptIdle /\ EnvIdle /\ CliIdle /\ ArgIdle /\ ScraperIdle /\ BucketIdle /\ SessionIdle

BucketNext ==
    \/ EnterSite
    \/ ensureBucketsExist
    \/ ensurePublicBucketUrlSecret
    \/ OperatorSetsUrlSecret
    \/ launchCreateBuckets
    \/ createS3Buckets
    \/ createLitestreamBucket
    \/ createPublicBucket
    \/ createPrivateBucket
    \/ SkipBucket

SpecBucket == BucketInit /\ [][BucketNext]_vars

CoreIdle == ScriptIdle /\ EnvIdle /\ CliIdle /\ ArgIdle /\ ScraperIdle /\ BucketIdle

StudioInit == CoreIdle /\ SessionIdle

SpecStudio == StudioInit /\ [][StudioNext]_vars /\ StudioFairness

SignalInit == CoreIdle /\ SessionIdle

SpecSignal == SignalInit /\ [][SignalNext]_vars

TomlSpecInit == CoreIdle /\ StudioIdle /\ SignalIdle /\ TomlInit /\ ResolveIdle /\ PlatformIdle

SpecToml == TomlSpecInit /\ [][TomlNext]_vars

ResolveSpecInit ==
    /\ ScriptIdle /\ CliIdle /\ ArgIdle /\ ScraperIdle /\ BucketIdle
    /\ StudioIdle /\ SignalIdle /\ TomlIdle /\ PlatformIdle
    /\ ResolveInit

SpecResolve == ResolveSpecInit /\ [][ResolveNext]_vars

----------------------------------------------------------------------------
(* Claims about the startup script *)

\* C1: with no local database file, a successful restore is followed by the
\* version-check/migrate step and never by the fresh-install step; a failed
\* restore is followed by the fresh-install step, which runs the migration
\* tool once whatever the versions are and, the tool having succeeded,
\* leaves exactly one marker row, that of the current machine version.
C1_RestoreBranches ==
    /\ Has("restore_ok") =>
          /\ Has("no_local_db")
          /\ ~Has("fresh")
          /\ (pc # "check" => Has("check"))
    /\ Has("restore_failed") =>
          /\ Has("no_local_db")
          /\ ~Has("check")
          /\ (pc # "fresh" => Has("fresh") /\ Count("migrate") = 1)
          /\ (pc \in {"final", "app_direct", "app_replicated"} =>
                /\ Count("insert") = 1
                /\ rows = {[id |-> 1, machine_version |-> CURRENT_VERSION]})

C1_Witness ==
    /\ Has("restore_failed")
    /\ pc = "app_replicated"
    /\ Cardinality(rows) = 1
    /\ starts >= 2

\* C2: the version-check/migrate step runs the migration tool exactly when
\* the current machine version differs from the marker with the highest id
\* (or there is none); a successful run adds exactly one row, carrying the
\* current version and a new highest id; an identical version adds none;
\* and no step of the script removes or changes a row.
C2_SameAsLast ==
    \E r \in rows : (\A q \in rows : q.id <= r.id) /\ r.machine_version = CURRENT_VERSION

C2_MigrateIffVersionDiffers ==
    [][ /\ (pc = "check" /\ pc' # "check") =>
             /\ (\E i \in 1..Len(runLog') : runLog'[i] = "migrate") <=> ~C2_SameAsLast
             /\ (C2_SameAsLast => rows' = rows)
             /\ (~C2_SameAsLast /\ pc' = "final" =>
                    \E r \in rows' \ rows :
                       /\ rows' = rows \cup {r}
                       /\ r.machine_version = CURRENT_VERSION
                       /\ \A q \in rows : q.id < r.id)
             /\ (~C2_SameAsLast /\ pc' = "exited" => rows' = rows)
        /\ (pc # "stopped" => rows \subseteq rows')
      ]_vars

C2_Witness ==
    /\ Has("has_local_db")
    /\ Has("migrate")
    /\ pc = "final"
    /\ Cardinality(rows) >= 2
    /\ \E r, q \in rows : r.machine_version # q.machine_version

\* C23: the application is started only by the final step of the script:
\* directly by `exec node` when LITESTREAM_S3_ACCESS_KEY_ID is not set,
\* and otherwise only by `exec litestream replicate -exec`, as the child
\* of the replicating backup daemon.
C23_FinalStepByCredentials ==
    [][ (pc' \in {"app_direct", "app_replicated"} /\ pc' # pc) =>
           /\ pc = "final"
           /\ runLog' = Append(runLog, IF pc' = "app_direct"
                                       THEN "exec_node"
                                       ELSE "exec_litestream_replicate")
           /\ (pc' = "app_direct") <=> (LITESTREAM_S3_ACCESS_KEY_ID = "")
           /\ (pc' = "app_replicated") <=> (LITESTREAM_S3_ACCESS_KEY_ID # "")
      ]_vars

C23_Witness ==
    /\ pc = "app_replicated"
    /\ LITESTREAM_S3_ACCESS_KEY_ID # ""
    /\ Has("exec_litestream_replicate")
    /\ ~Has("exec_node")

----------------------------------------------------------------------------
(* Claims about the argument builder *)

Injected == SubSeq(aResult.args, 1, Len(aResult.args) - Len(aUserArgs))
Built == aResult.revision # "none" /\ ~aResult.threw

\* C9: whatever the configuration and the user arguments, the argument
\* vector built for the command 'storage' contains neither --app nor --config.
C9_StorageNeverAppOrConfig ==
    (Built /\ aCommand = "storage") =>
        /\ ~Contains(aResult.args, "--app")
        /\ ~Contains(aResult.args, "--config")

\* C10 as stated: the argument vector built for 'status' contains
\* `--app <name>` when config.app is set and no --app flag when it is not.
C10_AppFlagIffConfigApp ==
    (Built /\ aCommand = "status") =>
        /\ (aConfig.app # "" => HasPair(aResult.args, "--app", aConfig.app))
        /\ (aConfig.app = "" => ~Contains(aResult.args, "--app"))

\* C10: for 'status' the builder puts exactly one `--app <name>` in front of
\* the user arguments, where <name> is config.app or, when config.app is not
\* set, the environment variable FLY_APP; when neither is set it adds no
\* --app flag, so the vector has one only if the user arguments have one.
C10_AppFlagFromConfigOrEnv ==
    (Built /\ aCommand = "status") =>
        LET name == IF aConfig.app # "" THEN aConfig.app ELSE FLY_APP
            n == Len(Injected)
        IN /\ SubSeq(aResult.args, n + 1, Len(aResult.args)) = aUserArgs
           /\ name # "" => /\ n >= 3
                           /\ Injected[n - 1] = "--app"
                           /\ Injected[n] = name
                           /\ Occurrences(Injected, "--app") = 1
           /\ name = "" => /\ ~Contains(Injected, "--app")
                           /\ (Contains(aResult.args, "--app") <=> Contains(aUserArgs, "--app"))

C10_Witness ==
    /\ Built
    /\ aCommand = "status"
    /\ aConfig.app = ""
    /\ FLY_APP = "envapp"
    /\ aResult.revision = "packages/cli"
    /\ HasPair(aResult.args, "--app", "envapp")

\* the user arguments carry no --app flag or one `--app other`, the way
\* checkAppAccess and setFlySecrets pass the app they were asked to work on
AppFlagOfCaller ==
    /\ Occurrences(aUserArgs, "--app") <= 1
    /\ Contains(aUserArgs, "--app") => HasPair(aUserArgs, "--app", "other")

\* C28: a vector built from the arguments of such a caller contains at most
\* one --app flag, and when the caller passed one, no --app flag of the
\* vector names another app.
C28_AtMostOneAppFlag ==
    (Built /\ AppFlagOfCaller) =>
        /\ Occurrences(aResult.args, "--app") <= 1
        /\ \A i \in 1..(Len(aUserArgs) - 1) :
              aUserArgs[i] = "--app" =>
                 \A j \in 1..(Len(aResult.args) - 1) :
                    aResult.args[j] = "--app" => aResult.args[j + 1] = aUserArgs[i + 1]

----------------------------------------------------------------------------
(* Claims about configuration resolution and validation *)

InProject == nuxtConfigTs /\ cliPc \notin {"idle", "handleUnknownCommand", "ensureConfig"}

\* C3: in a project with both fly.toml and fly.staging.toml on disk and
\* NUXFLY_ENV unset, every command ends with the "environment not set" error
\* and exit code 2, and spawns or writes nothing on the way.
C3_AmbiguousDescriptorExits2 ==
    (InProject /\ NUXFLY_ENV = "" /\ \A f \in TomlFiles : disk[f].present) =>
        /\ effects = <<>>
        /\ cliPc = "proxy" \/ (/\ cliPc = "exited"
                               /\ exitCode = 2
                               /\ lastError.name = "NuxflyEnvNotSetError")

ActiveDescriptor(env) == IF env \in {"", "prod"} THEN "fly.toml" ELSE "fly." \o env \o ".toml"

\* C4: the descriptor launch writes, and the descriptor every command
\* resolves, is fly.<NUXFLY_ENV>.toml when NUXFLY_ENV is set to a value other
\* than prod, and fly.toml when NUXFLY_ENV is unset or prod.
C4_EnvSelectsDescriptor ==
    InProject =>
        /\ config.flyTomlPath # "" => config.flyTomlPath = ActiveDescriptor(NUXFLY_ENV)
        /\ verb = "launch" =>
              \A i \in 1..Len(effects) :
                 effects[i][1] = "writeFile" => effects[i][2] = ActiveDescriptor(NUXFLY_ENV)

\* C5: when the descriptor does not exist at the resolved path, deploy,
\* studio and every proxied command end with the descriptor-not-found error
\* of the validation layer, having spawned and written nothing.
C5_MissingDescriptorFailsFast ==
    (/\ InProject
     /\ verb \in {"deploy", "studio"} \/ shouldProxy(verb)
     /\ cliPc \notin {"deploy", "studio", "proxy"}
     /\ config.flyTomlPath # ""
     /\ ~FilePresent(config.flyTomlPath)) =>
        /\ effects = <<>>
        /\ cliPc = "exited"
        /\ lastError.name = "FlyTomlNotFoundError"

----------------------------------------------------------------------------
(* Claims about the credential scraper *)

KeyValueLine(line, key) == Len(line) >= 2 /\ line[1] = key /\ Trim(line[2]) # ""
Populated(credentials) == \A k \in 1..5 : credentials[CredentialFields[k]] # ""

LastHasValue(key) ==
    \E i \in 1..Len(sOutput) :
       /\ Includes(sOutput[i], key)
       /\ \A j \in (i + 1)..Len(sOutput) : ~Includes(sOutput[j], key)
       /\ Trim(sOutput[i][2]) # ""

RECURSIVE JoinColon(_)
JoinColon(pieces) ==
    IF pieces = <<>> THEN ""
    ELSE IF Len(pieces) = 1 THEN pieces[1]
    ELSE pieces[1] \o ":" \o JoinColon(Tail(pieces))

TextAfterKey(line, key) ==
    LET i == CHOOSE n \in 1..(Len(line) - 1) :
                 line[n] = key /\ \A j \in 1..(n - 1) : line[j] # key
    IN Trim(JoinColon(SubSeq(line, i + 1, Len(line))))

\* C30: each field of the credentials the scraper returns is the complete
\* text after the key and its colon on the last line that has the key,
\* trimmed, colons of the value included.
C30_FieldIsFullValue ==
    (sResult.parsed /\ ~sResult.isNull) =>
        \A k \in 1..5 :
           \E i \in 1..Len(sOutput) :
              /\ Includes(sOutput[i], CredentialKeys[k])
              /\ \A j \in (i + 1)..Len(sOutput) : ~Includes(sOutput[j], CredentialKeys[k])
              /\ sResult.credentials[CredentialFields[k]]
                    = TextAfterKey(sOutput[i], CredentialKeys[k])

----------------------------------------------------------------------------
(* Claims about the bucket provisioner *)

\* C6: at every call site a create call is issued for a bucket name only
\* after the list of existing buckets was obtained and only if the name is
\* not in that list.
C6_CreateOnlyIfAbsentFromSnapshot ==
    \A i \in 1..Len(bLog) :
       bLog[i].kind \in {"storage create", "storage create failed"} =>
          /\ bLog[i].snapshotTaken
          /\ bLog[i].name \notin bLog[i].snapshot

FieldsFound(output) ==
    Cardinality({k \in 1..5 : ScanLines(output, NoCredentials)[CredentialFields[k]] # ""})

\* C7: after a create call whose output yields fewer than five credential
\* fields the bucket creation function emits a warning and issues no
\* secrets-set call; a secrets-set call follows only a create call whose
\* output yields all five, and it carries five non-empty values.
C7_SecretsOnlyWithAllFive ==
    \A i \in 1..Len(bLog) :
       /\ bLog[i].kind = "storage create" =>
             /\ i < Len(bLog)
             /\ bLog[i + 1].name = bLog[i].name
             /\ bLog[i + 1].kind = IF FieldsFound(bLog[i].output) < 5 THEN "warn"
                                   ELSE "secrets set"
       /\ bLog[i].kind = "secrets set" =>
             /\ i > 1
             /\ bLog[i - 1].kind = "storage create"
             /\ FieldsFound(bLog[i - 1].output) = 5
             /\ \A k \in 1..5 : bLog[i].values[k] # ""

C7_Witness ==
    \E i, j \in 1..Len(bLog) :
       /\ bLog[i].kind = "warn"
       /\ FieldsFound(bLog[i - 1].output) = 4
       /\ bLog[j].kind = "secrets set"
       /\ bSite = "deploy"

----------------------------------------------------------------------------
(* Dispatch and pass-through *)

OwnVerbs == {"launch", "import", "generate", "deploy", "studio", "update"}

\* C11: each of the CLI's own verbs (launch, import, generate, deploy,
\* studio, update) goes to its own command handler, and only a verb that is
\* not one of them is handed to the platform tool.
C11_OwnVerbsNotProxied ==
    /\ cliPc = "proxy" => verb \notin OwnVerbs
    /\ cliPc = "ensureConfig" => verb \in OwnVerbs

\* a proxied command that got as far as running the platform tool
ProxiedRun == shouldProxy(verb) /\ cliPc = "exited" /\ toolExit # NotExited

\* C12: for a verb that is proxied the platform tool is run with the verb,
\* then the injected --config / --app flags, then exactly the arguments the
\* user typed after the verb, in their order, none dropped, none doubled.
C12_ProxyPassesUserArgs ==
    ProxiedRun =>
        LET v == effects[Len(effects)]
            n == Len(v) - Len(argv)
            mid == SubSeq(v, 3, n)
        IN /\ n >= 2
           /\ v[1] = "flyctl" /\ v[2] = verb
           /\ SubSeq(v, n + 1, Len(v)) = argv
           /\ Len(mid) \in {0, 2, 4}
           /\ Len(mid) >= 2 => mid[1] \in {"--config", "--app"}
           /\ Len(mid) = 4 => mid[1] = "--config" /\ mid[3] = "--app"

\* C13: when the platform tool run by launch, deploy, import or a proxied
\* command exits with a code c other than 0 and 130, the CLI process exits
\* with code c.
C13_ToolExitCodePropagates ==
    (/\ cliPc = "exited"
     /\ toolExit \notin {NotExited, 0, 130}
     /\ (verb \in {"launch", "deploy", "import"} \/ shouldProxy(verb)))
    => exitCode = toolExit

\* C14: a command of the CLI whose configuration cannot be resolved ends
\* with the exit code of the resolution error: 4 when the directory has no
\* framework config file, 2 when the environment is not set.
C14_ConfigFailureExitCode ==
    (/\ cliPc = "exited"
     /\ ~shouldProxy(verb)
     /\ effects = <<>>
     /\ loadConfig.error # NoError)
    => exitCode = loadConfig.error.exitCode

\* C15: a platform-tool subprocess that ends with the exit code of a user
\* interrupt (130) makes the command handler return normally: the process
\* ends with code 0 and no error.
C15_CancelReturnsNormally ==
    (cliPc = "exited" /\ toolExit = 130) => (exitCode = 0 /\ lastError = NoError)

\* C27: when launch finds the descriptor of the environment on disk and
\* the app exists on the platform, the CLI exits with code 1 in that step:
\* it writes no file and does not run `flyctl launch`.
C27_ExistingAppStopsLaunch ==
    [][ (/\ cliPc = "launch_validated"
         /\ appExists
         /\ FilePresent(getEnvironmentSpecificFlyTomlPath.path))
        => /\ cliPc' = "exited"
           /\ exitCode' = 1
           /\ effects' = effects
           /\ disk' = disk
      ]_vars

----------------------------------------------------------------------------
(* Claims about the studio session *)

ReadinessSeen ==
    \E i \in 1..Len(tunnelStdout) :
        tunnelStdout[i] \in {"Proxying local port 4983", "listening on localhost"}

\* C16: the studio tool is started only after the tunnel has written a
\* readiness chunk to its stdout; when the ten seconds pass without one the
\* command ends with exit code 1 and the "Tunnel setup timeout" error, and
\* the studio tool has never been started.
C16_StudioAfterReadiness ==
    /\ studioProcess # "none" => ReadinessSeen
    /\ stPc \in {"settle", "studioRunning", "returned"} => ReadinessSeen
    /\ elapsed = TunnelTimeoutSeconds =>
          /\ ~ReadinessSeen
          /\ studioProcess = "none"
          /\ stPc \in {"setupTunnel", "exited"}
          /\ stPc = "exited" => timeout = "fired"
    /\ timeout = "fired" =>
          /\ stPc = "exited"
          /\ stExit = 1
          /\ stError = TimeoutMessage
          /\ studioProcess = "none"
          /\ ~ReadinessSeen

\* the wait has timed out after the tunnel wrote something that is not a
\* readiness chunk, and the tunnel has been killed
C16_Witness ==
    /\ timeout = "fired"
    /\ stError = TimeoutMessage
    /\ tunnelStdout # <<>>
    /\ tunnelProcess = "killed"

----------------------------------------------------------------------------
(* Claims about signals *)

\* C18: a SIGINT or SIGTERM received by the CLI while a platform-tool
\* subprocess is running reaches the most recently spawned child, in
\* streaming and in single-shot mode and after any number of earlier
\* subprocesses.
C18_SignalReachesLastChild ==
    [][(sigCount' = sigCount + 1 /\ Running)
          => lastSignal' \in subprocesses'[Len(subprocesses')].received]_vars

----------------------------------------------------------------------------
(* Claims about the bucket phase of deploy *)

\* the log entries and events that are failures of the bucket phase and of
\* the public bucket URL secret
BucketFailure(e) ==
    \/ e.kind \in {"storage create failed", "secrets set failed"}
    \/ /\ e.kind = "consola.debug"
       /\ e.name \in {"Cannot access app", "Could not determine organization name",
                      "Failed to list existing buckets", "Failed to get app secrets",
                      "Failed to set secret"}

\* C19: in deploy a failure while listing, checking or creating buckets, or
\* while checking or setting the public bucket URL secret, is followed by a
\* warning in the log, and the platform deploy is still invoked after it.
C19_BucketFailuresWarnedNotFatal ==
    /\ bSite = "deploy" => bPc # "failed"
    /\ bPc = "deployed" =>
          /\ bLog[Len(bLog)].kind = "flyctl deploy"
          /\ \A i \in 1..Len(bLog) :
                BucketFailure(bLog[i]) =>
                   \E j \in (i + 1)..Len(bLog) : bLog[j].kind = "consola.warn"

\* C24: when a deploy run has completed, every bucket kind that the
\* configuration asks for and whose bucket exists on the platform has its
\* credential secrets set on the app, whatever launch and deploy runs came
\* before, among them a run that created the bucket and then could not
\* read its credentials or could not set the secrets.
C24_DeployLeavesSecretsSet ==
    bPc = "deployed" =>
        \A i \in 1..3 :
            (needs[BucketKinds[i]] /\ BucketName(BucketKinds[i]) \in platformBuckets)
            => appSecrets[BucketName(BucketKinds[i])] = "set"

\* the step in which deploy runs ensurePublicBucketUrlSecret issued
\* `flyctl secrets set NUXT_PUBLIC_S3_PUBLIC_URL=...`, whether the call
\* succeeded or not
UrlSecretSetIssued ==
    \E i \in (Len(bLog) + 1)..Len(bLog') :
        \/ bLog'[i].kind = "url secret set"
        \/ bLog'[i] = Consola("consola.debug", "Failed to set secret")

----------------------------------------------------------------------------
(* Claims about the descriptor *)

\* the entries of an env object by key and by the text of the value
EnvTexts(env) == {<<env[i].key, env[i].text>> : i \in 1..Len(env)}

\* C20: parseFlyToml of the text generateFlyToml made from a config yields
\* the app, region, memory, instances.min, instances.max, env and volumes of
\* that config (with the generator's defaults for what the config leaves
\* out, and env values compared by their text).
C20_RoundTrip ==
    gParsed.done =>
        LET c == Defaulted(gConfig)
            r == gParsed.config
        IN /\ r.app = c.app
           /\ r.region = c.region
           /\ r.memory = c.memory
           /\ r.instances.min = c.instances.min
           /\ r.instances.max = c.instances.max
           /\ EnvTexts(r.env) = EnvTexts(c.env)
           /\ r.volumes = c.volumes

----------------------------------------------------------------------------
(* Claims about the resolved configuration *)

\* the configs a caller can hand to the validator: a memory text and the
\* two scaling numbers
ConfigsToValidate ==
    {[EmptyConfig EXCEPT !.memory = m,
                         !.instances = [set |-> TRUE, min |-> mn, max |-> mx]] :
        m \in MemoryTexts, mn \in 0..MaxMachines, mx \in 0..MaxMachines}

\* C21: a config that loadConfig returns has a memory text matching
\* /^\d+(mb|gb)$/i and, when it has scaling numbers, min <= max; and the
\* validator answers with a ConfigError for every config whose min exceeds
\* its max or whose memory text does not match.
C21_ResolvedConfigValid ==
    /\ (resolved.done /\ resolved.error = NoError) =>
          /\ isValidMemoryFormat(resolved.config.memory)
          /\ resolved.config.instances.set =>
                 resolved.config.instances.min <= resolved.config.instances.max
    /\ resolved.done =>
          \A cfg \in ConfigsToValidate :
              (\/ cfg.instances.min > cfg.instances.max
               \/ ~isValidMemoryFormat(cfg.memory))
              => validateConfig(cfg).name = "ConfigError"

\* the project of the generate scenario: a Nuxt project with no descriptor
\* file of any environment and NUXFLY_ENV unset
NoDescriptorNoEnv ==
    /\ nuxtConfigTs
    /\ NUXFLY_ENV = ""
    /\ \A f \in TomlFiles : ~disk[f].present

============================================================================
